---- MODULE Spec2Model ----
(***************************************************************************)
(* A model of the walking robot of lewfer/walking-pi-bot-2:                *)
(*   - Joint (joint.py): the eased servo move and its angle limits;        *)
(*   - Animal (animal.py): one movement thread per leg, the gaits and the  *)
(*     action thread;                                                      *)
(*   - RandomAnimal (random_animal.py): the behaviour loop with its timer, *)
(*     interrupt and weighted random choice, and the Head sensors.         *)
(* Each part has its own specification; the variables of the other parts   *)
(* stay unchanged in it.                                                   *)
(***************************************************************************)
EXTENDS Integers, Sequences, FiniteSets, TLC

VARIABLES
    jointKind,        \* which joint of the robot this Joint object is
    lowAngle,         \* Joint.lowAngle
    midAngle,         \* Joint.midAngle
    highAngle,        \* Joint.highAngle
    stepsPerDegree,   \* Joint.stepsPerDegree, a fraction <<num, den>>
    _angle,           \* Joint._angle, the stored current angle
    servoAngle,       \* the last angle given to Servo.angle, a fraction; den 0: none yet
    sentCount,        \* how many angles the call in progress (or the last call) gave the servo
    jpc,              \* "idle", or "moveTo" while a moveTo is between its steps
    mv,               \* the locals of the moveTo in progress: newAngle, secs, i
    lastCall          \* the last Joint call that returned

VARIABLES
    numPairs,         \* len(self.legPairs)
    _stopped,         \* Animal._stopped
    _actionThread,    \* Animal._actionThread: 0 for None, else the number of a thread object
    _threads,         \* Animal._threads: leg id -> 0 for None, else the number of a thread object of the leg
    actionThreads,    \* the action thread objects: state, target, the calls left to make
    legThreads,       \* the movement thread objects of each leg
    callers           \* the threads that call runAction and stopCurrentAction, and where they are in the call

jointVars == <<jointKind, lowAngle, midAngle, highAngle, stepsPerDegree, _angle,
               servoAngle, sentCount, jpc, mv, lastCall>>

gaitVars == <<numPairs, _stopped, _actionThread, _threads, actionThreads, legThreads, callers>>

VARIABLES
    settings,                \* Animal.settings: HUMANTRACKING and RANDOMWEIGHTS
    age,                     \* Animal.age, the ticks of the behaviour loop so far
    _currentAction,          \* RandomAnimal._currentAction, a one-letter code or "None"
    _timerDelay,             \* RandomAnimal._timerDelay
    _timerAction,            \* RandomAnimal._timerAction, a one-letter code or "None"
    _timerAgeStart,          \* RandomAnimal._timerAgeStart
    _interruptId,            \* RandomAnimal._interruptId, or "None"
    _interruptValue,         \* RandomAnimal._interruptValue, -1 for None
    _interruptBeingHandled,  \* RandomAnimal._interruptBeingHandled (None counts as False)
    _runningRandom,          \* RandomAnimal._runningRandom
    choice,                  \* the local choice of _runRandom in the iteration in progress
    _pauseDistanceSensor,    \* Head._pauseDistanceSensor
    _pauseThermalSensor,     \* Head._pauseThermalSensor
    _runningSensor,          \* Head._runningDistanceSensor and Head._runningThermalSensor
    lastDistance,            \* Head.lastDistance, -1 for None
    sensorThreads,           \* the two sensor threads: state and the interrupt they are about to raise
    is_pressed,              \* leftAntenna.is_pressed and rightAntenna.is_pressed
    headMovers,              \* the threads that are inside a move of the head joint
    procs,                   \* the main thread and the _runRandom thread: state and the calls left to make
    raised,                  \* history: the interrupts the sensors and antennae have raised so far
    accepted                 \* history: a short-distance interrupt was accepted during 'F' since the last iteration began

engineVars == <<settings, age, _currentAction, _timerDelay, _timerAction, _timerAgeStart,
                _interruptId, _interruptValue, _interruptBeingHandled, _runningRandom, choice,
                _pauseDistanceSensor, _pauseThermalSensor, _runningSensor, lastDistance,
                sensorThreads, is_pressed, headMovers, procs, raised, accepted>>

VARIABLES
    legs,                    \* the two Legs of a LegPair: the hip and the knee Joint of each
    moved,                   \* for each leg, the last call on it: the hip angle before it and the change
    rd                       \* DistanceSensor.readCm: where the call is, its locals and what it returned

deviceVars == <<legs, moved, rd>>

vars == <<jointVars, gaitVars, engineVars, deviceVars>>

(***************************************************************************)
(* Part 1: Joint (joint.py), with the calibration of animal.py             *)
(***************************************************************************)

Abs(x) == IF x < 0 THEN -x ELSE x

\* Fractions <<num, den>> with den > 0 stand for the floats of the source.
FracLE(a, b) == a[1] * b[2] <= b[1] * a[2]
FracOfInt(n) == <<n, 1>>

\* leg.py: indexes into a joint's settings list [.., .., ..] (Python counts from 0)
LEG_MID == 1
LEG_FRONT == 2
LEG_BACK == 0
LEG_DOWN == 0
LEG_UP == 2

JointKinds == {"left.hip", "left.knee", "right.hip", "right.knee", "head"}

\* Settings lists a joint can be calibrated with: the defaults of
\* Animal.setDefaultSettings, and lists saved by a calibration (a range that
\* does not hold 90, and a list entered the wrong way round).
LegRangeSettings(kind) ==
    CASE kind = "left.hip"   -> { <<130, 90, 70>>, <<150, 125, 100>>, <<70, 90, 130>> }
      [] kind = "left.knee"  -> { <<50, 90, 130>>, <<20, 40, 60>> }
      [] kind = "right.hip"  -> { <<50, 90, 110>>, <<30, 50, 80>> }
      [] kind = "right.knee" -> { <<130, 90, 50>>, <<160, 140, 100>> }
      [] kind = "head"       -> { <<0, 90, 180>>, <<100, 120, 150>> }

\* settings['STEPSPERDEGREE']: 0.25 by default; "Try 2, 1, 0.5, 0.25"
StepsPerDegreeSettings == { <<1, 4>>, <<1, 1>> }

\* Targets, offsets and durations the callers ask for
Targets == { -20, 60, 95, 200 }
Deltas == { -200, -30, 0, 30 }
Durations == { 0, 1 }
NudgeAmounts == { -60, 60 }

NoMove == [newAngle |-> 0, secs |-> 0, i |-> 0]

\* Joint.__init__; Head.__init__ then narrows the range of its joint
Joint_init ==
    /\ jointKind \in JointKinds
    /\ midAngle = 90
    /\ highAngle = IF jointKind = "head" THEN 160 ELSE 180
    /\ lowAngle = IF jointKind = "head" THEN 20 ELSE 0
    /\ stepsPerDegree = <<1, 1>>
    /\ _angle = 90
    /\ servoAngle = <<0, 0>>
    /\ sentCount = 0
    /\ jpc = "idle"
    /\ mv = NoMove
    /\ lastCall = "init"

\* Joint._limitedAngle
_limitedAngleNoLow(angle) ==
    IF angle > highAngle THEN highAngle ELSE angle

_limitedAngle(angle) ==
    IF angle > highAngle THEN highAngle
    ELSE IF angle < lowAngle THEN lowAngle
    ELSE angle

\* easing.py easeInOutQuad at t = tn/td, as a fraction over td*td
easeInOutQuad(tn, td) ==
    IF 2 * tn < td
    THEN <<2 * tn * tn, td * td>>
    ELSE <<(4 * td - 2 * tn) * tn - td * td, td * td>>

ease(tn, td) == easeInOutQuad(tn, td)

\* moveTo: int(abs(delta)*self.stepsPerDegree), the number of eased steps
StepCount(delta) == (Abs(delta) * stepsPerDegree[1]) \div stepsPerDegree[2]

\* moveTo: a = self._angle + delta * ease((i/self.stepsPerDegree)/abs(delta))
StepAngleWrongSign(i, delta) ==
    LET e == ease(i * stepsPerDegree[2], stepsPerDegree[1] * Abs(delta))
    IN  <<_angle * e[2] - delta * e[1], e[2]>>

StepAngle(i, delta) ==
    LET e == ease(i * stepsPerDegree[2], stepsPerDegree[1] * Abs(delta))
    IN  <<_angle * e[2] + delta * e[1], e[2]>>

\* Joint.moveTo up to its loop: the target is limited, the locals are set
moveTo(newAngle, secs) ==
    /\ jpc = "idle"
    /\ jpc' = "moveTo"
    /\ mv' = [newAngle |-> _limitedAngle(newAngle), secs |-> secs, i |-> 0]
    /\ sentCount' = 0
    /\ UNCHANGED <<jointKind, lowAngle, midAngle, highAngle, stepsPerDegree,
                   _angle, servoAngle, lastCall, gaitVars, engineVars, deviceVars>>

\* One turn of the loop of moveTo: the eased angle goes to the servo
moveTo_step ==
    /\ jpc = "moveTo"
    /\ mv.i < StepCount(mv.newAngle - _angle)
    /\ servoAngle' = StepAngle(mv.i, mv.newAngle - _angle)
    /\ sentCount' = sentCount + 1
    /\ mv' = [mv EXCEPT !.i = mv.i + 1]
    /\ UNCHANGED <<jointKind, lowAngle, midAngle, highAngle, stepsPerDegree,
                   _angle, jpc, lastCall, gaitVars, engineVars, deviceVars>>

\* The end of moveTo: the final angle goes to the servo and is remembered
moveTo_return ==
    /\ jpc = "moveTo"
    /\ mv.i >= StepCount(mv.newAngle - _angle)
    /\ servoAngle' = FracOfInt(mv.newAngle)
    /\ sentCount' = sentCount + 1
    /\ _angle' = mv.newAngle
    /\ jpc' = "idle"
    /\ mv' = [mv EXCEPT !.i = 0]
    /\ lastCall' = "moveTo"
    /\ UNCHANGED <<jointKind, lowAngle, midAngle, highAngle, stepsPerDegree, gaitVars, engineVars, deviceVars>>

moveRelativeToCurrent(deltaAngle, secs) ==
    moveTo(_limitedAngle(_angle + deltaAngle), secs)

moveRelativeToMid(deltaAngle, secs) ==
    moveTo(_limitedAngle(midAngle + deltaAngle), secs)

moveRelativeToLow(deltaAngle, secs) ==
    moveTo(_limitedAngle(lowAngle + deltaAngle), secs)

moveRelativeToHigh(deltaAngle, secs) ==
    moveTo(_limitedAngle(highAngle + deltaAngle), secs)

moveDirectTo(newAngle) ==
    /\ jpc = "idle"
    /\ servoAngle' = FracOfInt(_limitedAngle(newAngle))
    /\ sentCount' = 1
    /\ _angle' = _limitedAngle(newAngle)
    /\ lastCall' = "moveDirectTo"
    /\ UNCHANGED <<jointKind, lowAngle, midAngle, highAngle, stepsPerDegree, jpc, mv, gaitVars, engineVars, deviceVars>>

moveDirectToMid == moveDirectTo(midAngle)

\* Joint.nudge: "Used for calibration.  Angle limited to 0-180"
nudge(amount) ==
    /\ jpc = "idle"
    /\ LET newAngle == IF _angle + amount < 0 THEN 0
                       ELSE IF _angle + amount > 180 THEN 180
                       ELSE _angle + amount
       IN  /\ _angle' = newAngle
           /\ servoAngle' = FracOfInt(newAngle)
    /\ sentCount' = 1
    /\ lastCall' = "nudge"
    /\ UNCHANGED <<jointKind, lowAngle, midAngle, highAngle, stepsPerDegree, jpc, mv, gaitVars, engineVars, deviceVars>>

\* Animal.applySettings (with _setStepsPerDegree) as it acts on this joint:
\* low, mid and high are taken from the settings list s, the angle is not touched
applySettings(s, spd) ==
    /\ jpc = "idle"
    /\ lowAngle' = CASE jointKind = "left.hip"   -> s[LEG_FRONT + 1]
                     [] jointKind = "left.knee"  -> s[LEG_DOWN + 1]
                     [] jointKind = "right.hip"  -> s[LEG_BACK + 1]
                     [] jointKind = "right.knee" -> s[LEG_UP + 1]
                     [] jointKind = "head"       -> s[1]
    /\ midAngle' = s[LEG_MID + 1]
    /\ highAngle' = CASE jointKind = "left.hip"   -> s[LEG_BACK + 1]
                      [] jointKind = "left.knee"  -> s[LEG_UP + 1]
                      [] jointKind = "right.hip"  -> s[LEG_FRONT + 1]
                      [] jointKind = "right.knee" -> s[LEG_DOWN + 1]
                      [] jointKind = "head"       -> s[3]
    /\ stepsPerDegree' = IF jointKind = "head" THEN stepsPerDegree ELSE spd
    /\ lastCall' = "applySettings"
    /\ UNCHANGED <<jointKind, _angle, servoAngle, sentCount, jpc, mv, gaitVars, engineVars, deviceVars>>

(***************************************************************************)
(* Part 2: Animal (animal.py): leg movement threads, gaits, action thread  *)
(***************************************************************************)

\* Bounds of the model: thread objects that can exist at once
MaxActionThreads == 2
MaxLegThreads == 2

\* Bound of the model: calls of runAction / stopCurrentAction that are made
MaxCalls == 2

\* _turn: "for i in range(7)"; _bounce: "for i in range(3)"
TurnCycles == 7
BounceCycles == 3

numLegs == 2 * numPairs

\* Leg ids in the order addPairOfLegs puts them into the _threads dictionary
LegOrder == <<"L0", "R0", "L1", "R1", "L2", "R2">>
AllLegs == SubSeq(LegOrder, 1, numLegs)
LegIds == { LegOrder[i] : i \in 1..numLegs }
L(pair) == LegOrder[2 * pair + 1]
R(pair) == LegOrder[2 * pair + 2]
SideLegs(side) == [p \in 1..numPairs |-> IF side = "L" THEN L(p - 1) ELSE R(p - 1)]

\* An action thread runs a list of calls.  A call is one of
\*   run   : _runOnThread(leg, func)
\*   join  : the turn of _joinThreads for one leg (last: the last leg of the list)
\*   stop  : the turn of _stopThreads for one leg
\*   check : "if self._stopped: break" at the end of a cycle of a gait
\*   loop  : back to the top of the loop of gait func, n cycles done
\* Sleeps (_waitRandom, PUSHDELAY) and the jitter of angles take time only.
Call(o, l, f, b, n) == [op |-> o, leg |-> l, func |-> f, last |-> b, n |-> n]

When(cond, calls) == IF cond THEN calls ELSE <<>>

_runOnThread(legId, func) == <<Call("run", legId, func, FALSE, 0)>>

RunAll(legIds, func) == [i \in 1..Len(legIds) |-> Call("run", legIds[i], func, FALSE, 0)]

_joinThreads(legIds) ==
    [i \in 1..Len(legIds) |-> Call("join", legIds[i], "", i = Len(legIds), 0)]

_stopThreads == [i \in 1..numLegs |-> Call("stop", LegOrder[i], "", FALSE, 0)]

\* Leg.stop only stops the servos, which keeps no state; then _stopThreads
_stopMovements == _stopThreads

IfStopped == <<Call("check", "", "", FALSE, 0)>>

LoopOf(gait, n) == <<Call("loop", "", gait, FALSE, n)>>

\* "while True: ...; if self._stopped: break"
WhileTrue(gait, body) == body \o IfStopped \o LoopOf(gait, 0)

\* _reachForwardLeg without its wait for the leg
_reachForwardLegNoJoin(leg) == _runOnThread(leg, "reachForward")

_reachForwardLeg(leg) == _runOnThread(leg, "reachForward") \o _joinThreads(<<leg>>)

\* leftFirst: random.random() > 0.5
_reachForwardPair(pair, leftFirst) ==
    IF leftFirst THEN _reachForwardLeg(L(pair)) \o _reachForwardLeg(R(pair))
                 ELSE _reachForwardLeg(R(pair)) \o _reachForwardLeg(L(pair))

_reachForwardPairTogether(pair, leftFirst) ==
    (IF leftFirst
     THEN _runOnThread(L(pair), "reachForward") \o _runOnThread(R(pair), "reachForward")
     ELSE _runOnThread(R(pair), "reachForward") \o _runOnThread(L(pair), "reachForward"))
    \o _joinThreads(<<L(pair), R(pair)>>)

\* The helpers that run one function on the legs of one side, front to back,
\* and wait for them: _reachForwardLeft, _pushBackRight, ...
SideTogether(side, func) == RunAll(SideLegs(side), func) \o _joinThreads(SideLegs(side))

_reachForwardLeft == SideTogether("L", "reachForward")
_reachForwardRight == SideTogether("R", "reachForward")
_reachBackwardLeft == SideTogether("L", "reachBackward")
_reachBackwardRight == SideTogether("R", "reachBackward")
_pushBackLeft == SideTogether("L", "pushBackward")
_pushBackRight == SideTogether("R", "pushBackward")
_pushForwardLeft == SideTogether("L", "pushForward")
_pushForwardRight == SideTogether("R", "pushForward")

_pushBackAll == RunAll(AllLegs, "pushBackward") \o _joinThreads(AllLegs)

\* The draws of random.random() > 0.5 of one cycle of a gait
RandomDraws == [1..3 -> BOOLEAN]

_shunt(r) ==
    WhileTrue("_shunt",
        _reachForwardPair(0, r[1])
        \o When(numLegs > 2, _reachForwardPair(1, r[2]))
        \o When(numLegs > 4, _reachForwardPair(2, r[3]))
        \o _pushBackAll)

_swimBreast(r) ==
    WhileTrue("_swimBreast",
        (IF r[1] THEN _reachForwardLeft \o _reachForwardRight
                 ELSE _reachForwardRight \o _reachForwardLeft)
        \o _pushBackAll)

_swimButterfly(r) ==
    WhileTrue("_swimButterfly",
        _reachForwardPairTogether(0, r[1])
        \o When(numLegs > 2, _reachForwardPairTogether(1, r[2]))
        \o When(numLegs > 4, _reachForwardPairTogether(2, r[3]))
        \o _pushBackAll)

_swimFrontCrawl(r) ==
    WhileTrue("_swimFrontCrawl",
        (IF r[1] THEN _reachForwardLeft \o _reachForwardRight
                 ELSE _reachForwardRight \o _reachForwardLeft)
        \o (IF r[2] THEN _pushBackLeft \o _pushBackRight
                    ELSE _pushBackRight \o _pushBackLeft))

\* settings['FORWARDMOVEMENTS']
FORWARDMOVEMENTS == {"_shunt", "_swimBreast", "_swimButterfly", "_swimFrontCrawl"}

\* The reach phase of _backward and _turn: the front legs one by one, the middle
\* legs together, the rear legs one by one
ReachOneByOne(leftFunc, rightFunc) ==
    _runOnThread("L0", leftFunc) \o _joinThreads(<<"L0">>)
    \o _runOnThread("R0", rightFunc) \o _joinThreads(<<"R0">>)
    \o When(numLegs > 2,
            _runOnThread("L1", leftFunc) \o _runOnThread("R1", rightFunc)
            \o _joinThreads(<<"L1", "R1">>))
    \o When(numLegs > 4,
            _runOnThread("L2", leftFunc) \o _joinThreads(<<"L2">>)
            \o _runOnThread("R2", rightFunc) \o _joinThreads(<<"R2">>))

\* The reach phase of _left and _right: the rear legs together too
ReachPairByPair(leftFunc, rightFunc) ==
    _runOnThread("L0", leftFunc) \o _joinThreads(<<"L0">>)
    \o _runOnThread("R0", rightFunc) \o _joinThreads(<<"R0">>)
    \o When(numLegs > 2,
            _runOnThread("L1", leftFunc) \o _runOnThread("R1", rightFunc)
            \o _joinThreads(<<"L1", "R1">>))
    \o When(numLegs > 4,
            _runOnThread("L2", leftFunc) \o _runOnThread("R2", rightFunc)
            \o _joinThreads(<<"L2", "R2">>))

\* The commands of a push phase or of a pose: the left then the right leg of
\* each pair, front to back
RunPairs(leftFunc, rightFunc, pairs) ==
    [i \in 1..(2 * pairs) |->
        Call("run", LegOrder[i], IF i % 2 = 1 THEN leftFunc ELSE rightFunc, FALSE, 0)]

\* The push phase with "legs += [...]": every leg is waited for
PushAll(leftFunc, rightFunc) ==
    RunPairs(leftFunc, rightFunc, numPairs) \o _joinThreads(AllLegs)

\* The same with "legs = [...]" for the middle and the rear pair, as _turn,
\* _point and _eat have it: only the last pair commanded is waited for
PushLastPairJoined(leftFunc, rightFunc) ==
    RunPairs(leftFunc, rightFunc, numPairs)
    \o _joinThreads(<<L(numPairs - 1), R(numPairs - 1)>>)

_backward ==
    WhileTrue("_backward",
        ReachOneByOne("reachBackward", "reachBackward")
        \o PushAll("pushForward", "pushForward"))

\* Before the loop of _backLeft: the left legs are put into position
_backLeft_position ==
    (CASE numLegs > 4 -> _runOnThread("L0", "kneeOffFloor") \o _runOnThread("L1", "kneeOffFloor")
                         \o _runOnThread("L2", "reachBackward")
       [] numLegs > 2 /\ numLegs <= 4 -> _runOnThread("L0", "kneeOffFloor")
                                         \o _runOnThread("L1", "reachBackward")
       [] OTHER -> _runOnThread("L0", "reachBackward"))
    \o _joinThreads(SideLegs("L"))

\* The loop of _backLeft with the reach of the left legs in place of the right ones
_backLeft_loopBothSides == WhileTrue("_backLeft", _reachBackwardLeft \o _pushForwardRight)

_backLeft_loop == WhileTrue("_backLeft", _reachBackwardRight \o _pushForwardRight)

_backLeft == _backLeft_position \o _backLeft_loop

_backRight_position ==
    (CASE numLegs > 4 -> _runOnThread("R0", "kneeOffFloor") \o _runOnThread("R1", "kneeOffFloor")
                         \o _runOnThread("R2", "reachBackward")
       [] numLegs > 2 /\ numLegs <= 4 -> _runOnThread("R0", "kneeOffFloor")
                                         \o _runOnThread("R1", "reachBackward")
       [] OTHER -> _runOnThread("R0", "reachBackward"))
    \o _joinThreads(SideLegs("R"))

_backRight_loop == WhileTrue("_backRight", _reachBackwardLeft \o _pushForwardLeft)

_backRight == _backRight_position \o _backRight_loop

\* _right with the reach of _left for the right legs
_rightReachBackward ==
    WhileTrue("_right",
        ReachPairByPair("reachForward", "reachForward")
        \o PushAll("pushBackward", "pushForward"))

_right ==
    WhileTrue("_right",
        ReachPairByPair("reachForward", "reachBackward")
        \o PushAll("pushBackward", "pushForward"))

_left ==
    WhileTrue("_left",
        ReachPairByPair("reachBackward", "reachForward")
        \o PushAll("pushForward", "pushBackward"))

_point ==
    WhileTrue("_point",
        _runOnThread("L0", "setAngles") \o _runOnThread("R0", "setAngles")
        \o When(numLegs > 2, _runOnThread("L1", "mid") \o _runOnThread("R1", "mid"))
        \o When(numLegs > 4, _runOnThread("L2", "mid") \o _runOnThread("R2", "mid"))
        \o _joinThreads(<<L(numPairs - 1), R(numPairs - 1)>>))

_eat ==
    WhileTrue("_eat",
        _runOnThread("L0", "setAngles") \o _runOnThread("R0", "setAngles")
        \o When(numLegs > 2, _runOnThread("L1", "mid") \o _runOnThread("R1", "mid"))
        \o When(numLegs > 4, _runOnThread("L2", "mid") \o _runOnThread("R2", "mid"))
        \o _joinThreads(<<L(numPairs - 1), R(numPairs - 1)>>))

\* One cycle of "for i in range(7)" of _turn, i cycles done before it
_turn_cycle(i) ==
    ReachOneByOne("reachBackward", "reachForward")
    \o PushLastPairJoined("pushForward", "pushBackward")
    \o IfStopped
    \o LoopOf("_turn", i + 1)

_turn == _turn_cycle(0)

\* One cycle of "for i in range(3)" of _bounce
_bounce_cycle(i) ==
    RunPairs("kneeOffFloor", "kneeOffFloor", 1) \o _joinThreads(<<"L0", "R0">>)
    \o RunPairs("kneeFullDown", "kneeFullDown", 1) \o _joinThreads(<<"L0", "R0">>)
    \o LoopOf("_bounce", i + 1)

_bounce == _bounce_cycle(0)

\* A pose that runs one function on every leg and waits for none of them
PoseAllNoJoin(func) == RunPairs(func, func, numPairs)

\* The poses that run one function on every leg and wait for all of them
PoseAll(func) == RunPairs(func, func, numPairs) \o _joinThreads(AllLegs)

_unwind == PoseAll("unwind")
_alert == PoseAll("alert")
_kneesup == PoseAll("kneeFullUp")
_kneesdown == PoseAll("kneeFullDown")
_hipsbackward == PoseAll("hipFullBackward")
_hipsforward == PoseAll("hipFullForward")
_jump == _alert

_sit ==
    When(numPairs >= 2,
         _runOnThread(L(numPairs - 1), "kneeFullDown")
         \o _runOnThread(R(numPairs - 1), "kneeFullDown"))
    \o _runOnThread("L0", "sit") \o _runOnThread("R0", "sit")
    \o _joinThreads(When(numPairs >= 2, <<L(numPairs - 1), R(numPairs - 1)>>) \o <<"L0", "R0">>)

\* The calls of gait from the top of its loop; r: the random draws of the cycle
Cycle(gait, r) ==
    CASE gait = "_shunt" -> _shunt(r)
      [] gait = "_swimBreast" -> _swimBreast(r)
      [] gait = "_swimButterfly" -> _swimButterfly(r)
      [] gait = "_swimFrontCrawl" -> _swimFrontCrawl(r)
      [] gait = "_backward" -> _backward
      [] gait = "_backLeft" -> _backLeft_loop
      [] gait = "_backRight" -> _backRight_loop
      [] gait = "_right" -> _right
      [] gait = "_left" -> _left
      [] gait = "_point" -> _point
      [] gait = "_eat" -> _eat

\* The loop call of a _turn that returns after its last cycle without _stopMovements
LoopCallsNoStopMovements(c, r) ==
    CASE c.func = "_turn" -> IF c.n < TurnCycles THEN _turn_cycle(c.n) ELSE <<>>
      [] c.func = "_bounce" -> IF c.n < BounceCycles THEN _bounce_cycle(c.n) ELSE <<>>
      [] OTHER -> Cycle(c.func, r)

\* What the loop call does: the next cycle of a "while True", or of a "for"
\* that has cycles left; after the last cycle _turn goes on to _stopMovements
LoopCalls(c, r) ==
    CASE c.func = "_turn" -> IF c.n < TurnCycles THEN _turn_cycle(c.n) ELSE _stopMovements
      [] c.func = "_bounce" -> IF c.n < BounceCycles THEN _bounce_cycle(c.n) ELSE <<>>
      [] OTHER -> Cycle(c.func, r)

\* _forward: random.choice over FORWARDMOVEMENTS; _run and _crawl are _forward
\* at another speed
_forward(movement, r) == Cycle(movement, r)

\* The calls of the action function func from its start
Target(func, movement, r) ==
    CASE func \in {"_forward", "_run", "_crawl"} -> _forward(movement, r)
      [] func = "_backLeft" -> _backLeft
      [] func = "_backRight" -> _backRight
      [] func = "_turn" -> _turn
      [] func = "_bounce" -> _bounce
      [] func = "_unwind" -> _unwind
      [] func = "_alert" -> _alert
      [] func = "_sit" -> _sit
      [] func = "_jump" -> _jump
      [] func = "_kneesup" -> _kneesup
      [] func = "_kneesdown" -> _kneesdown
      [] func = "_hipsbackward" -> _hipsbackward
      [] func = "_hipsforward" -> _hipsforward
      [] OTHER -> Cycle(func, r)

\* The action functions runAction is given
ActionFuncs ==
    {"_forward", "_backward", "_backLeft", "_backRight", "_right", "_left", "_point",
     "_eat", "_turn", "_bounce", "_unwind", "_alert", "_sit", "_jump", "_kneesup",
     "_kneesdown", "_hipsbackward", "_hipsforward"}

\* ---- thread objects ----

ActionIds == 1..MaxActionThreads
LegThreadIds == 1..MaxLegThreads

\* The threads that call runAction / stopCurrentAction from outside the action
\* threads: "main" (the behaviour loop, or a test program) and "other"
Callers == {"main", "other"}

\* A thread object that is not running: never started, or finished
NoActionThread == [state |-> "dead", func |-> "", todo |-> <<>>, pc |-> "get", ref |-> 0]
NoLegThread == [alive |-> FALSE, func |-> "", old |-> FALSE]
IdleCaller == [pc |-> "idle", call |-> "", ref |-> 0, calls |-> 0]

\* Animal.__init__ and addPairOfLegs for pairs pairs of legs
Animal_init(pairs) ==
    /\ numPairs = pairs
    /\ _stopped = FALSE
    /\ _actionThread = 0
    /\ _threads = [l \in {LegOrder[i] : i \in 1..(2 * pairs)} |-> 0]
    /\ actionThreads = [a \in ActionIds |-> NoActionThread]
    /\ legThreads = [l \in {LegOrder[i] : i \in 1..(2 * pairs)} |->
                        [k \in LegThreadIds |-> NoLegThread]]
    /\ callers = [c \in Callers |-> IdleCaller]

Min(S) == CHOOSE x \in S : \A y \in S : x <= y

AliveLegThreads(leg) == {k \in LegThreadIds : legThreads[leg][k].alive}

AliveActionThreads == {a \in ActionIds : actionThreads[a].state = "alive"}

\* The call an action thread is at
At(a, o, p) ==
    /\ actionThreads[a].state = "alive"
    /\ actionThreads[a].todo # <<>>
    /\ actionThreads[a].todo[1].op = o
    /\ actionThreads[a].pc = p

NextCall(a) == actionThreads[a].todo[1]

\* Thread objects of a leg that nothing refers to any more
FreeLegThreads(leg) ==
    {k \in LegThreadIds :
        /\ ~legThreads[leg][k].alive
        /\ _threads[leg] # k
        /\ \A b \in ActionIds :
              ~(actionThreads[b].state = "alive" /\ actionThreads[b].ref = k
                /\ actionThreads[b].todo # <<>> /\ actionThreads[b].todo[1].leg = leg)}

FreeActionThreads ==
    {a \in ActionIds :
        /\ actionThreads[a].state = "dead"
        /\ \A c \in Callers : callers[c].ref # a}

\* The calls of runAction and stopCurrentAction made so far
CallsMade == callers["main"].calls + callers["other"].calls

\* thread.join() of "if thread is not None: thread.join()" returns
Joined(leg, k) == IF k = 0 THEN TRUE ELSE ~legThreads[leg][k].alive

\* The call is done: on to the next one
Return(a) == [actionThreads[a] EXCEPT !.todo = Tail(@), !.pc = "get", !.ref = 0]

\* ---- _runOnThread, by action thread a ----

\* thread = self._threads[legId]
_runOnThread_get(a) ==
    /\ At(a, "run", "get")
    /\ actionThreads' = [actionThreads EXCEPT ![a].ref = _threads[NextCall(a).leg],
                                              ![a].pc = "join"]
    /\ UNCHANGED <<numPairs, _stopped, _actionThread, _threads, legThreads, callers, jointVars, engineVars, deviceVars>>

\* if thread is not None: thread.join()
_runOnThread_join(a) ==
    /\ At(a, "run", "join")
    /\ Joined(NextCall(a).leg, actionThreads[a].ref)
    /\ actionThreads' = [actionThreads EXCEPT ![a].pc = "start"]
    /\ UNCHANGED <<numPairs, _stopped, _actionThread, _threads, legThreads, callers, jointVars, engineVars, deviceVars>>

\* thread = Thread(target=funcEval, ...); thread.start()
\* (_threadCount only numbers the names of the threads)
_runOnThread_start(a) ==
    /\ At(a, "run", "start")
    /\ FreeLegThreads(NextCall(a).leg) # {}
    /\ LET leg == NextCall(a).leg
           k == Min(FreeLegThreads(leg))
       IN  /\ legThreads' = [legThreads EXCEPT ![leg][k] =
                                [alive |-> TRUE, func |-> NextCall(a).func, old |-> FALSE]]
           /\ actionThreads' = [actionThreads EXCEPT ![a].ref = k, ![a].pc = "store"]
    /\ UNCHANGED <<numPairs, _stopped, _actionThread, _threads, callers, jointVars, engineVars, deviceVars>>

\* self._threads[legId] = thread
_runOnThread_store(a) ==
    /\ At(a, "run", "store")
    /\ _threads' = [_threads EXCEPT ![NextCall(a).leg] = actionThreads[a].ref]
    /\ actionThreads' = [actionThreads EXCEPT ![a] = Return(a)]
    /\ UNCHANGED <<numPairs, _stopped, _actionThread, legThreads, callers, jointVars, engineVars, deviceVars>>

\* The function of a leg (Leg.reachForward, ...) returns: its thread ends
LegThreadEnds(leg, k) ==
    /\ legThreads[leg][k].alive
    /\ legThreads' = [legThreads EXCEPT ![leg][k] = NoLegThread]
    /\ UNCHANGED <<numPairs, _stopped, _actionThread, _threads, actionThreads, callers,
                   jointVars, engineVars, deviceVars>>

\* ---- _joinThreads, one leg of the list ----

\* thread = self._threads[legId]
_joinThreads_get(a) ==
    /\ At(a, "join", "get")
    /\ actionThreads' = [actionThreads EXCEPT ![a].ref = _threads[NextCall(a).leg],
                                              ![a].pc = "join"]
    /\ UNCHANGED <<numPairs, _stopped, _actionThread, _threads, legThreads, callers, jointVars, engineVars, deviceVars>>

\* if thread is not None: thread.join().  When the list is done a phase of the
\* gait is over: the leg threads still alive are marked as of an old phase.
_joinThreads_join(a) ==
    /\ At(a, "join", "join")
    /\ Joined(NextCall(a).leg, actionThreads[a].ref)
    /\ actionThreads' = [actionThreads EXCEPT ![a] = Return(a)]
    /\ legThreads' = IF NextCall(a).last
                     THEN [l \in DOMAIN legThreads |-> [k \in LegThreadIds |->
                              IF legThreads[l][k].alive
                              THEN [legThreads[l][k] EXCEPT !.old = TRUE]
                              ELSE legThreads[l][k]]]
                     ELSE legThreads
    /\ UNCHANGED <<numPairs, _stopped, _actionThread, _threads, callers, jointVars, engineVars, deviceVars>>

\* ---- _stopThreads, one leg of the dictionary ----

\* thread = self._threads[k]
_stopThreads_get(a) ==
    /\ At(a, "stop", "get")
    /\ actionThreads' = [actionThreads EXCEPT ![a].ref = _threads[NextCall(a).leg],
                                              ![a].pc = "join"]
    /\ UNCHANGED <<numPairs, _stopped, _actionThread, _threads, legThreads, callers, jointVars, engineVars, deviceVars>>

\* The turn of _stopThreads for a leg that empties the slot without the join
_stopThreads_noJoin(a) ==
    /\ At(a, "stop", "join")
    /\ _threads' = IF actionThreads[a].ref = 0 THEN _threads
                   ELSE [_threads EXCEPT ![NextCall(a).leg] = 0]
    /\ actionThreads' = [actionThreads EXCEPT ![a] = Return(a)]
    /\ UNCHANGED <<numPairs, _stopped, _actionThread, legThreads, callers, jointVars, engineVars, deviceVars>>

\* if thread is not None: thread.join(); self._threads[k] = None
_stopThreads_join(a) ==
    /\ At(a, "stop", "join")
    /\ Joined(NextCall(a).leg, actionThreads[a].ref)
    /\ _threads' = IF actionThreads[a].ref = 0 THEN _threads
                   ELSE [_threads EXCEPT ![NextCall(a).leg] = 0]
    /\ actionThreads' = [actionThreads EXCEPT ![a] = Return(a)]
    /\ UNCHANGED <<numPairs, _stopped, _actionThread, legThreads, callers, jointVars, engineVars, deviceVars>>

\* ---- the loop of a gait ----

\* The test of a gait that goes on whatever the stop flag says
IfStopped_noBreak(a) ==
    /\ At(a, "check", "get")
    /\ actionThreads' = [actionThreads EXCEPT ![a].todo = Tail(@)]
    /\ UNCHANGED <<numPairs, _stopped, _actionThread, _threads, legThreads, callers, jointVars, engineVars, deviceVars>>

\* "if self._stopped: break", and after the loop self._stopMovements()
IfStopped_break(a) ==
    /\ At(a, "check", "get")
    /\ actionThreads' = [actionThreads EXCEPT ![a].todo =
                            IF _stopped THEN _stopMovements ELSE Tail(@)]
    /\ UNCHANGED <<numPairs, _stopped, _actionThread, _threads, legThreads, callers, jointVars, engineVars, deviceVars>>

\* The top of the loop again, with the random draws of the new cycle
NextCycle(a, r) ==
    /\ At(a, "loop", "get")
    /\ actionThreads' = [actionThreads EXCEPT ![a].todo = LoopCalls(NextCall(a), r)]
    /\ UNCHANGED <<numPairs, _stopped, _actionThread, _threads, legThreads, callers, jointVars, engineVars, deviceVars>>

\* The action function returns: the action thread ends
ActionThreadEnds(a) ==
    /\ actionThreads[a].state = "alive"
    /\ actionThreads[a].todo = <<>>
    /\ actionThreads' = [actionThreads EXCEPT ![a] = NoActionThread]
    /\ UNCHANGED <<numPairs, _stopped, _actionThread, _threads, legThreads, callers, jointVars, engineVars, deviceVars>>

\* ---- runAction and stopCurrentAction, called by c ----

\* stopCurrentAction: self._stopped = True.  call: "runAction" when runAction
\* makes the call and goes on afterwards, else "stopCurrentAction"
stopCurrentAction_set(c, call) ==
    /\ callers[c].pc = "idle"
    /\ CallsMade < MaxCalls
    /\ _stopped' = TRUE
    /\ callers' = [callers EXCEPT ![c].pc = "join", ![c].call = call, ![c].calls = @ + 1]
    /\ UNCHANGED <<numPairs, _actionThread, _threads, actionThreads, legThreads, jointVars, engineVars, deviceVars>>

\* if self._actionThread: self._actionThread.join()
\* (join raises RuntimeError for a thread that was not started yet)
stopCurrentAction_join(c) ==
    /\ callers[c].pc = "join"
    /\ callers' = [callers EXCEPT
          ![c].pc = IF _actionThread = 0 THEN "clear"
                    ELSE IF actionThreads[_actionThread].state = "created" THEN "error"
                    ELSE "joining",
          ![c].ref = IF _actionThread = 0 THEN 0
                     ELSE IF actionThreads[_actionThread].state = "created" THEN 0
                     ELSE _actionThread]
    /\ UNCHANGED <<numPairs, _stopped, _actionThread, _threads, actionThreads, legThreads,
                   jointVars, engineVars, deviceVars>>

\* stopCurrentAction going on without waiting for the thread to end
stopCurrentAction_notJoined(c) ==
    /\ callers[c].pc = "joining"
    /\ callers' = [callers EXCEPT ![c].pc = "clear", ![c].ref = 0]
    /\ UNCHANGED <<numPairs, _stopped, _actionThread, _threads, actionThreads, legThreads,
                   jointVars, engineVars, deviceVars>>

\* join returns when the thread has ended
stopCurrentAction_joined(c) ==
    /\ callers[c].pc = "joining"
    /\ actionThreads[callers[c].ref].state = "dead"
    /\ callers' = [callers EXCEPT ![c].pc = "clear", ![c].ref = 0]
    /\ UNCHANGED <<numPairs, _stopped, _actionThread, _threads, actionThreads, legThreads,
                   jointVars, engineVars, deviceVars>>

\* self._stopped = False; stopCurrentAction returns
stopCurrentAction_clear(c) ==
    /\ callers[c].pc = "clear"
    /\ _stopped' = FALSE
    /\ callers' = [callers EXCEPT
          ![c].pc = IF callers[c].call = "runAction" THEN "create" ELSE "idle",
          ![c].call = IF callers[c].call = "runAction" THEN "runAction" ELSE ""]
    /\ UNCHANGED <<numPairs, _actionThread, _threads, actionThreads, legThreads, jointVars, engineVars, deviceVars>>

\* stopCurrentAction(), and runAction(None), which does nothing more
stopCurrentAction(c) == stopCurrentAction_set(c, "stopCurrentAction")

\* runAction(func): self.stopCurrentAction() ...
runAction(c) == stopCurrentAction_set(c, "runAction")

\* ... self._actionThread = Thread(target=func) ...
\* func, the argument of runAction, is drawn here, where it is first used
runAction_create(c, func) ==
    /\ callers[c].pc = "create"
    /\ FreeActionThreads # {}
    /\ LET a == Min(FreeActionThreads)
       IN  /\ actionThreads' = [actionThreads EXCEPT ![a] =
                  [state |-> "created", func |-> func, todo |-> <<>>, pc |-> "get", ref |-> 0]]
           /\ _actionThread' = a
    /\ callers' = [callers EXCEPT ![c].pc = "start"]
    /\ UNCHANGED <<numPairs, _stopped, _threads, legThreads, jointVars, engineVars, deviceVars>>

\* ... self._actionThread.start(): the thread the field holds now is started
\* (start raises RuntimeError for a thread that was started before)
runAction_start(c, movement, r) ==
    /\ callers[c].pc = "start"
    /\ IF actionThreads[_actionThread].state = "created"
       THEN /\ actionThreads' = [actionThreads EXCEPT ![_actionThread].state = "alive",
                   ![_actionThread].todo = Target(actionThreads[_actionThread].func, movement, r)]
            /\ callers' = [callers EXCEPT ![c].pc = "idle", ![c].call = ""]
       ELSE /\ callers' = [callers EXCEPT ![c].pc = "error", ![c].call = ""]
            /\ UNCHANGED actionThreads
    /\ UNCHANGED <<numPairs, _stopped, _actionThread, _threads, legThreads, jointVars, engineVars, deviceVars>>

\* The steps of the action threads and of the leg threads
ThreadSteps ==
    \/ \E a \in ActionIds : _runOnThread_get(a)
    \/ \E a \in ActionIds : _runOnThread_join(a)
    \/ \E a \in ActionIds : _runOnThread_start(a)
    \/ \E a \in ActionIds : _runOnThread_store(a)
    \/ \E a \in ActionIds : _joinThreads_get(a)
    \/ \E a \in ActionIds : _joinThreads_join(a)
    \/ \E a \in ActionIds : _stopThreads_get(a)
    \/ \E a \in ActionIds : _stopThreads_join(a)
    \/ \E a \in ActionIds : IfStopped_break(a)
    \/ \E a \in ActionIds, r \in RandomDraws : NextCycle(a, r)
    \/ \E a \in ActionIds : ActionThreadEnds(a)
    \/ \E leg \in LegIds, k \in LegThreadIds : LegThreadEnds(leg, k)

\* The calls of caller c, which picks its action functions from funcs
CallerSteps(c, funcs) ==
    \/ runAction(c)
    \/ stopCurrentAction(c)
    \/ stopCurrentAction_join(c)
    \/ stopCurrentAction_joined(c)
    \/ stopCurrentAction_clear(c)
    \/ \E f \in funcs : runAction_create(c, f)
    \/ \E m \in FORWARDMOVEMENTS, r \in RandomDraws : runAction_start(c, m, r)


(***************************************************************************)
(* Part 2b: Leg (leg.py), the hip and the knee Joint of a pair of legs     *)
(***************************************************************************)

\* leg.py: range of movement of the hip and of the knee about the mid angle
HIPMOVEMENT == 30
KNEEMOVEMENT == 15

LegSides == {"left", "right"}

\* Leg.direction: "Left and right leg movements must be mirrored, so set
\* direction to 1 = left, -1 = right"
DirectionSame(side) == 1

Direction(side) == IF side = "left" THEN 1 ELSE -1

\* settings["leg_ranges"][pair]: the default of Animal.setDefaultSettings and
\* lists saved by a calibration (hip order: back, mid, forward; knee order:
\* down, mid, up)
DefaultLegRanges ==
    [left  |-> [hip |-> <<130, 90, 70>>, knee |-> <<50, 90, 130>>],
     right |-> [hip |-> <<50, 90, 110>>, knee |-> <<130, 90, 50>>]]

LegRanges ==
    { DefaultLegRanges,
      [left  |-> [hip |-> <<120, 90, 60>>, knee |-> <<50, 90, 130>>],
       right |-> [hip |-> <<60, 90, 120>>, knee |-> <<130, 90, 50>>]],
      [left  |-> [hip |-> <<150, 125, 100>>, knee |-> <<20, 40, 60>>],
       right |-> [hip |-> <<30, 55, 80>>, knee |-> <<160, 140, 100>>]],
      [left  |-> [hip |-> <<130, 90, 70>>, knee |-> <<50, 90, 130>>],
       right |-> [hip |-> <<30, 50, 80>>, knee |-> <<130, 90, 50>>]] }

\* A Joint as Joint.__init__ and then Animal.applySettings leave it
LegJoint(low, mid, high) ==
    [lowAngle |-> low, midAngle |-> mid, highAngle |-> high, _angle |-> 90]

\* Animal.addPairOfLegs and Animal.applySettings for the pair with the ranges r
LegPair_init(r) ==
    /\ legs = [left  |-> [hip  |-> LegJoint(r.left.hip[LEG_FRONT + 1], r.left.hip[LEG_MID + 1],
                                            r.left.hip[LEG_BACK + 1]),
                          knee |-> LegJoint(r.left.knee[LEG_DOWN + 1], r.left.knee[LEG_MID + 1],
                                            r.left.knee[LEG_UP + 1])],
               right |-> [hip  |-> LegJoint(r.right.hip[LEG_BACK + 1], r.right.hip[LEG_MID + 1],
                                            r.right.hip[LEG_FRONT + 1]),
                          knee |-> LegJoint(r.right.knee[LEG_UP + 1], r.right.knee[LEG_MID + 1],
                                            r.right.knee[LEG_DOWN + 1])]]
    /\ moved = [side \in LegSides |-> [op |-> "None", from |-> 90, delta |-> 0]]

\* Joint._limitedAngle of the joint j
LimitedIn(j, angle) ==
    IF angle > j.highAngle THEN j.highAngle
    ELSE IF angle < j.lowAngle THEN j.lowAngle
    ELSE angle

\* Joint.moveTo as it leaves the joint j: self._angle = newAngle, limited
MovedTo(j, newAngle) == [j EXCEPT !._angle = LimitedIn(j, newAngle)]

\* Joint.moveRelativeToMid, moveRelativeToLow and moveRelativeToHigh of j
MovedRelativeToMid(j, deltaAngle) == MovedTo(j, LimitedIn(j, j.midAngle + deltaAngle))
MovedRelativeToLow(j, deltaAngle) == MovedTo(j, LimitedIn(j, j.lowAngle + deltaAngle))
MovedRelativeToHigh(j, deltaAngle) == MovedTo(j, LimitedIn(j, j.highAngle + deltaAngle))

\* Leg.kneeFullDown of the leg with the direction dir
kneeFullDown(leg, dir) ==
    [leg EXCEPT !.knee = IF dir = -1 THEN MovedRelativeToHigh(@, 0) ELSE MovedRelativeToLow(@, 0)]

\* The reach movements: the knee up, the hip and the knee together, the knee down
Reach(leg, dir, hipOffset) ==
    LET up == MovedRelativeToMid(leg.knee, KNEEMOVEMENT)
        together == [hip  |-> MovedRelativeToMid(leg.hip, hipOffset),
                     knee |-> MovedRelativeToMid(up, 2 * KNEEMOVEMENT * dir)]
    IN  kneeFullDown(together, dir)

reachForward(leg, dir) == Reach(leg, dir, -HIPMOVEMENT * dir)
reachBackward(leg, dir) == Reach(leg, dir, HIPMOVEMENT * dir)
pushBackward(leg, dir) == [leg EXCEPT !.hip = MovedRelativeToMid(@, HIPMOVEMENT * dir)]
pushForward(leg, dir) == [leg EXCEPT !.hip = MovedRelativeToMid(@, -HIPMOVEMENT * dir)]

\* The movements of the walk
WalkOps == {"reachForward", "reachBackward", "pushForward", "pushBackward"}

LegAfter(leg, dir, op) ==
    CASE op = "reachForward" -> reachForward(leg, dir)
      [] op = "reachBackward" -> reachBackward(leg, dir)
      [] op = "pushForward" -> pushForward(leg, dir)
      [] op = "pushBackward" -> pushBackward(leg, dir)

\* One movement of the walk is made by the leg of one side; the hip angle before
\* it and the change of the hip angle are kept
Leg_call(side, op) ==
    /\ legs' = [legs EXCEPT ![side] = LegAfter(@, Direction(side), op)]
    /\ moved' = [moved EXCEPT ![side] =
                    [op |-> op, from |-> legs[side].hip._angle,
                     delta |-> LegAfter(legs[side], Direction(side), op).hip._angle
                                   - legs[side].hip._angle]]
    /\ UNCHANGED <<jointVars, gaitVars, engineVars, rd>>

\* The compound movements of a leg: the knee and the hip are moved in steps,
\* the two joints of one step together (runThreadsTogether)
CompoundOps == {"reachForward", "reachBackward", "reachHalfBackward", "unwind", "sit"}

\* Joint._limitedAngle of the joint j for an angle that is a fraction <<num, den>>
LimitedFrac(j, f) ==
    IF f[1] > j.highAngle * f[2] THEN <<j.highAngle * f[2], f[2]>>
    ELSE IF f[1] < j.lowAngle * f[2] THEN <<j.lowAngle * f[2], f[2]>>
    ELSE f

\* The angle Joint.moveRelativeToMid(deltaAngle) of j ends with at the servo:
\* self._servo.angle(newAngle) of moveTo, deltaAngle a fraction
AngleRelativeToMid(j, deltaAngle) ==
    LimitedFrac(j, LimitedFrac(j, <<j.midAngle * deltaAngle[2] + deltaAngle[1], deltaAngle[2]>>))

\* The same of Leg.kneeFullDown: moveRelativeToHigh(0) of a right knee,
\* moveRelativeToLow(0) of a left knee
AngleKneeFullDown(leg, dir) ==
    IF dir = -1 THEN LimitedFrac(leg.knee, LimitedFrac(leg.knee, <<leg.knee.highAngle, 1>>))
    ELSE LimitedFrac(leg.knee, LimitedFrac(leg.knee, <<leg.knee.lowAngle, 1>>))

\* reachForward, reachBackward and reachHalfBackward: the knee is lifted, the
\* knee and the hip are moved together, the knee is put down
ReachSteps(leg, dir, hipOffset) ==
    << [knee |-> AngleRelativeToMid(leg.knee, <<KNEEMOVEMENT, 1>>)],
       [knee |-> AngleRelativeToMid(leg.knee, <<2 * KNEEMOVEMENT * dir, 1>>),
        hip  |-> AngleRelativeToMid(leg.hip, hipOffset)],
       [knee |-> AngleKneeFullDown(leg, dir)] >>

\* The final angles that the movement op gives the servos of the leg, step by step
LegSteps(leg, dir, op) ==
    CASE op = "reachForward" -> ReachSteps(leg, dir, <<-HIPMOVEMENT * dir, 1>>)
      [] op = "reachBackward" -> ReachSteps(leg, dir, <<HIPMOVEMENT * dir, 1>>)
      [] op = "reachHalfBackward" -> ReachSteps(leg, dir, <<HIPMOVEMENT * dir, 4>>)
      [] op = "unwind" -> << [knee |-> AngleRelativeToMid(leg.knee, <<10 * dir, 1>>),
                              hip  |-> AngleRelativeToMid(leg.hip, <<0, 1>>)] >>
      [] op = "sit" -> << [knee |-> AngleRelativeToMid(leg.knee, <<30 * dir, 1>>),
                           hip  |-> AngleRelativeToMid(leg.hip, <<0, 1>>)] >>

\* An angle of the source: an int, or a float that is no whole number
AngleOf(f) == IF f[1] % f[2] = 0 THEN f[1] \div f[2] ELSE f

\* The leg after the steps from the k-th on: each joint remembers its angle
RECURSIVE LegAfterSteps(_, _, _)
LegAfterSteps(leg, steps, k) ==
    IF k > Len(steps) THEN leg
    ELSE LegAfterSteps([joint \in {"hip", "knee"} |->
                            IF joint \in DOMAIN steps[k]
                            THEN [leg[joint] EXCEPT !._angle = AngleOf(steps[k][joint])]
                            ELSE leg[joint]],
                       steps, k + 1)

\* One compound movement is made by the leg of one side; the angles it gave
\* the servos are kept
Leg_move(side, op) ==
    /\ legs' = [legs EXCEPT ![side] = LegAfterSteps(@, LegSteps(@, Direction(side), op), 1)]
    /\ moved' = [moved EXCEPT ![side] =
                    [op |-> op, commands |-> LegSteps(legs[side], Direction(side), op)]]
    /\ UNCHANGED <<jointVars, gaitVars, engineVars, rd>>

(***************************************************************************)
(* Part 2c: DistanceSensor.readCm (distance_tf_mini.py)                    *)
(***************************************************************************)

minDistance == 5
maxDistance == 700
errorDistance == 1000

\* "if tries2>20", "if tries>20"
MaxTries == 20

\* The header byte 0x59, the strengths that count as unreliable
HeaderByte == 89
MaxStrength == 40000
MinStrength == 20

RECURSIVE SumOf(_, _)
\* buffer[0] + .. + buffer[n-1]
SumOf(buffer, n) == IF n = 0 THEN 0 ELSE buffer[n] + SumOf(buffer, n - 1)

\* A frame of the sensor for the distance dist and the strength: two header
\* bytes, distance and strength low byte first, two bytes of temperature, and
\* the low 8 bits of the sum of these 8 bytes
Frame(dist, strength) ==
    LET b == <<HeaderByte, HeaderByte, dist % 256, dist \div 256, strength % 256,
               strength \div 256, 0, 0>>
    IN  b \o <<SumOf(b, 8) % 256>>

\* The same frame with one bit of its checksum changed
DamagedFrame(dist, strength) ==
    LET f == Frame(dist, strength)
    IN  [f EXCEPT ![9] = (f[9] + 1) % 256]

\* What one call of pi.bb_serial_read can give: (count, data), with a
\* negative count for an error, no byte, the beginning of a frame, whole frames
\* (near, at no distance, beyond the range, too weak, too strong), a frame
\* with a wrong checksum, a frame after a stray byte or a stray header byte,
\* and bytes with no header among them
SerialReads ==
    { [count |-> -38, recv |-> <<>>],
      [count |-> 0, recv |-> <<>>],
      [count |-> 3, recv |-> <<HeaderByte, HeaderByte, 100>>],
      [count |-> 9, recv |-> Frame(100, 500)],
      [count |-> 9, recv |-> Frame(0, 500)],
      [count |-> 9, recv |-> Frame(1800, 500)],
      [count |-> 9, recv |-> Frame(100, 10)],
      [count |-> 9, recv |-> Frame(100, 50000)],
      [count |-> 9, recv |-> DamagedFrame(100, 500)],
      [count |-> 10, recv |-> <<7>> \o Frame(300, 500)],
      [count |-> 10, recv |-> <<HeaderByte>> \o Frame(300, 500)],
      [count |-> 9, recv |-> <<1, 2, 3, 4, 5, 6, 7, 8, 9>>] }

\* DistanceSensor.__init__: no call of readCm is in progress
DistanceSensor_init ==
    rd = [pc |-> "idle", distance |-> -1, tries |-> 0, tries2 |-> 0, buffer |-> <<>>,
          count |-> 0, result |-> 0]

\* "return" of readCm with the value v
Returned(r, v) == [r EXCEPT !.pc = "returned", !.result = v, !.buffer = <<>>, !.count = 0]

\* max(min(distance, self.maxDistance), self.minDistance)
ClampedNoMin(distance) == IF distance > maxDistance THEN maxDistance ELSE distance

Clamped(distance) ==
    LET m == IF distance < maxDistance THEN distance ELSE maxDistance
    IN  IF m > minDistance THEN m ELSE minDistance

\* "while distance==-1:" and, when the loop ends, the return of the distance
WhileNoDistance(r) ==
    IF r.distance = -1
    THEN [r EXCEPT !.pc = "read", !.tries = @ + 1, !.buffer = <<>>, !.count = 0, !.tries2 = 0]
    ELSE Returned(r, Clamped(r.distance))

\* readCm is called
readCm ==
    /\ rd.pc \in {"idle", "returned"}
    /\ rd' = WhileNoDistance([rd EXCEPT !.distance = -1, !.tries = 0, !.result = 0])
    /\ UNCHANGED <<jointVars, gaitVars, engineVars, legs, moved>>

\* One turn of "while count<9": the serial line gives the bytes of read
readCm_read(read) ==
    /\ rd.pc = "read"
    /\ LET buffer == IF read.count > 0 THEN rd.buffer \o read.recv ELSE rd.buffer
           r == [rd EXCEPT !.tries2 = @ + 1, !.count = read.count, !.buffer = buffer]
       IN  rd' = IF r.tries2 > MaxTries THEN Returned(r, errorDistance)
                 ELSE IF r.count < 9 THEN r
                 ELSE [r EXCEPT !.pc = "parse"]
    /\ UNCHANGED <<jointVars, gaitVars, engineVars, legs, moved>>

\* buffer[i] of Python is read: is the index within the bytearray
Indexed(buffer, i) == i < Len(buffer)

\* "buffer[0] == 0x59 and buffer[1] == 0x59" can be evaluated without IndexError
HeaderReadable(buffer) ==
    /\ Indexed(buffer, 0)
    /\ buffer[1] = HeaderByte => Indexed(buffer, 1)

HeaderAt(buffer) == buffer[1] = HeaderByte /\ buffer[2] = HeaderByte

RECURSIVE HeaderSearch(_, _)
\* "Search for the header bytes": what the while loop leaves of buffer and
\* count, or that it raised
HeaderSearch(buffer, count) ==
    IF ~HeaderReadable(buffer) THEN [raised |-> TRUE, buffer |-> buffer, count |-> count]
    ELSE IF ~HeaderAt(buffer) /\ count > 8 THEN HeaderSearch(Tail(buffer), count - 1)
    ELSE [raised |-> FALSE, buffer |-> buffer, count |-> count]

\* The distance of the frame at the head of buffer, or -1: the checksum is
\* compared, and the strength
FrameDistance(buffer) ==
    IF SumOf(buffer, 8) % 256 = buffer[9]
    THEN LET distance == buffer[3] + buffer[4] * 256
             strength == buffer[5] + buffer[6] * 256
         IN  IF strength > MaxStrength \/ strength < MinStrength THEN -1 ELSE distance
    ELSE -1

\* The rest of the turn of "while distance==-1" once 9 bytes or more came in
\* one read: the header is looked for, the frame is read, "if tries>20" gives up
readCm_parse ==
    /\ rd.pc = "parse"
    /\ LET found == HeaderSearch(rd.buffer, Len(rd.buffer))
           readable == found.count > 8 => (HeaderReadable(found.buffer)
                                           /\ (HeaderAt(found.buffer) => Indexed(found.buffer, 8)))
           distance == IF found.count > 8 /\ HeaderAt(found.buffer)
                       THEN FrameDistance(found.buffer) ELSE rd.distance
           r == [rd EXCEPT !.buffer = found.buffer, !.count = found.count,
                           !.distance = distance]
       IN  rd' = IF found.raised \/ ~readable THEN [rd EXCEPT !.pc = "raised"]
                 ELSE IF r.tries > MaxTries THEN Returned(r, errorDistance)
                 ELSE WhileNoDistance(r)
    /\ UNCHANGED <<jointVars, gaitVars, engineVars, legs, moved>>

(***************************************************************************)
(* Part 3: RandomAnimal (random_animal.py) and the Head sensors (head.py). *)
(* The main thread calls start() and may call stop(); start() starts the   *)
(* sensor threads and the _runRandom thread.  A thread is a list of calls  *)
(* left to make; a handler is the list of the calls it makes.  The action  *)
(* thread is taken as a whole here: a repeating gait ends when it sees the *)
(* stop flag, the other actions end by themselves.                         *)
(***************************************************************************)

\* The behaviour loop is followed up to this age
MaxAge == 5

\* The sensors and the antennae raise at most this many interrupts
MaxInterrupts == 2

\* settings['LONGDISTANCE'], which applySettings does not give the head
LONGDISTANCE == 200

SHORTDISTANCE == 30
longDistance == 1000
RUNSPACENEEDED == 100
EscapeDelay == 30
TurnDelay == 16
JumpDelay == 5
Cadence == 5

\* What readMedianCm can give runDistanceSensor, in cm: distances within the
\* range of the sensor, and errorDistance when the readings failed
Distances == {20, 200, errorDistance}

\* The action codes of the random choice, and three settings of their weights:
\* the default one, one that gives every weight to 'S', and one that shares
\* the weight between '.', 'L', 'U', '+' and 'K'
actions == <<".", "S", "B", "L", "R", "U", "P", "E", "A", "+", "-", "K", "N", "O">>
DefaultWeights == <<120, 10, 1, 3, 3, 2, 0, 1, 1, 40, 1, 20, 2, 50>>
SitOnlyWeights == <<0, 1, 0, 0, 0, 0, 0, 0, 0, 0, 0, 0, 0, 0>>
FewWeights == <<1, 0, 0, 1, 0, 1, 0, 0, 0, 1, 0, 1, 0, 0>>

\* The codes that have a [min, max] in settings['RANDOMTIME']
TimedCodes == {"B", "L", "R", "S", "P", "E", "A", "U", "M", "T", "+", "-", "K", "N", "O"}

\* settings['RANDOMTIME'] as setDefaultSettings gives it
DefaultTimes ==
    [code \in TimedCodes |->
        CASE code = "B" -> <<2, 8>> [] code \in {"L", "R"} -> <<2, 6>> [] code = "S" -> <<1, 3>>
          [] code \in {"P", "E", "A"} -> <<2, 30>> [] code = "U" -> <<5, 50>>
          [] code = "M" -> <<10, 20>> [] code = "T" -> <<5, 10>> [] code = "+" -> <<20, 30>>
          [] code = "-" -> <<2, 10>> [] code = "K" -> <<1, 2>> [] code = "N" -> <<4, 6>>
          [] code = "O" -> <<10, 15>>]

\* settings['RANDOMTIME'] with a short [min, max] for every code
ShortTimes == [code \in TimedCodes |-> <<1, 2>>]

\* self.settings['RANDOMTIME'][code]
RANDOMTIME(code) == settings.RANDOMTIME[code]

\* random.randint(minmax[0], minmax[1])
_randint(minmax) == minmax[1]..minmax[2]

\* ---- random.choices(actions, weights)[0] ----

\* cum_weights[n - 1], the sum of the first n weights
RECURSIVE Accumulate(_, _)
Accumulate(weights, n) == IF n = 0 THEN 0 ELSE Accumulate(weights, n - 1) + weights[n]

Total(weights) == Accumulate(weights, Len(weights))

\* bisect_left(cum_weights, x, 0, hi): the entries below x
bisectLeft(weights, x, hi) == Cardinality({k \in 1..hi : Accumulate(weights, k) < x})

\* bisect(cum_weights, x, 0, hi): the entries of cum_weights[0:hi] that are not above x
bisect(weights, x, hi) == Cardinality({k \in 1..hi : Accumulate(weights, k) <= x})

\* population[bisect(cum_weights, random() * total, 0, len - 1)], where x is
\* the whole part of random() * total (the cumulative weights are whole)
choices(population, weights, x) == population[bisect(weights, x, Len(weights) - 1) + 1]

Weight(code) ==
    LET i == CHOOSE k \in 1..Len(actions) : actions[k] = code
    IN  settings.RANDOMWEIGHTS[i]

\* ---- the calls of the handlers ----

OpFor(o, s, n, k) == [op |-> o, s |-> s, n |-> n, k |-> k]
Op(o, s, n) == OpFor(o, s, n, "")

\* head.move(position, t): joint.moveTo, from its first to its last servo command
Head_move == <<Op("move", "", 0), Op("moved", "", 0)>>

\* head.scan(), scanLeft(), scanRight() and look(): a row of head.move calls
\* with sensor readings in between
Head_scan == Head_move

\* Animal.stopCurrentAction as called by the handlers
StopCalls == <<Op("stop", "", 0), Op("join", "", 0)>>

\* _handleAction(func, msg): runAction(func), then self._currentAction = msg.
\* Nothing but the behaviour loop reads _currentAction, so the start of the
\* new thread and the assignment are one call here.
_handleAction(func, msg) ==
    StopCalls \o (IF func # "None" THEN <<OpFor("startThread", func, 0, msg)>>
                  ELSE <<Op("current", msg, 0)>>)

_setTimer(delay, action) == <<Op("_setTimer", action, delay)>>

\* _setTimer(self._randint(self.settings['RANDOMTIME'][code]), action)
SetTimerRandom(code, action) == <<OpFor("randomTimer", action, 0, code)>>

\* do_forward that arms a timer for itself with no delay
do_forwardAgain ==
    Head_move \o <<Op("unPauseSensors", "", 0), Op("_clearInterrupt", "", 0)>>
              \o _handleAction("_forward", "F") \o _setTimer(0, "F")

\* do_forward without its call of _clearInterrupt
do_forwardNoClear ==
    Head_move \o <<Op("unPauseSensors", "", 0)>> \o _handleAction("_forward", "F")

do_forward ==
    Head_move \o <<Op("unPauseSensors", "", 0), Op("_clearInterrupt", "", 0)>>
              \o _handleAction("_forward", "F")

do_backward == Head_move \o _handleAction("_backward", "B")
do_backLeft == Head_move \o _handleAction("_backLeft", "l")
do_backRight == Head_move \o _handleAction("_backRight", "r")
do_leftNoCheck == _handleAction("_left", "L")
do_rightNoCheck == _handleAction("_right", "R")
do_wait == _handleAction("None", "W")
do_unwind == <<Op("sameTimer", "J", 0)>> \o _handleAction("_unwind", "U")
do_trackMovement == _handleAction("_trackMovement", "T")
do_turn == _handleAction("_turn", "O")
\* do_jump that sets no timer
do_jumpNoTimer == _handleAction("_jump", "J")

do_jump == _handleAction("_jump", "J") \o _setTimer(JumpDelay, "F")

\* The target of the handlers that only call _handleAction
ActionOf(code) ==
    CASE code = "N" -> "_bounce" [] code = "P" -> "_point" [] code = "E" -> "_eat"
      [] code = "S" -> "_sit" [] code = "^" -> "_kneesup" [] code = "v" -> "_kneesdown"
      [] code = "<" -> "_hipsbackward" [] code = ">" -> "_hipsforward"
      [] code = "A" -> "_alert" [] code = "M" -> "_detectMovement"
      [] code = "+" -> "_run" [] code = "-" -> "_crawl"

\* do_bounce, do_point, do_eat, do_sit, do_kneesup, do_kneesdown, do_hipsbackward,
\* do_hipsforward, do_alert, do_detectMovement, do_run, do_crawl
do_action(code) == _handleAction(ActionOf(code), code)

\* clear_left and clear_right; the scan's answer is looked at by the caller
clear_side == <<Op("pauseSensors", "", 0)>> \o Head_scan \o <<Op("unPauseSensors", "", 0)>>

\* do_default without its call of stopCurrentAction
do_defaultNoStop == <<Op("pauseSensors", "", 0)>> \o Head_scan \o <<Op("do_default", "", 0)>>

do_default ==
    StopCalls \o <<Op("pauseSensors", "", 0)>> \o Head_scan \o <<Op("do_default", "", 0)>>

do_look ==
    <<Op("noTimer", "", 0)>> \o StopCalls \o <<Op("pauseSensors", "", 0)>> \o Head_scan
        \o <<Op("do_look", "", 0)>>

do_left == StopCalls \o clear_side \o <<Op("do_side", "L", 1)>>
do_right == StopCalls \o clear_side \o <<Op("do_side", "R", 1)>>

\* self.actionFunction[code]
actionFunction(code) ==
    CASE code = "*" -> do_default
      [] code = "K" -> do_look
      [] code = "F" -> do_forward
      [] code = "B" -> do_backward
      [] code = "L" -> do_left
      [] code = "R" -> do_right
      [] code = "l" -> do_backLeft
      [] code = "r" -> do_backRight
      [] code = "\\" -> do_leftNoCheck
      [] code = "W" -> do_wait
      [] code = "U" -> do_unwind
      [] code = "T" -> do_trackMovement
      [] code = "J" -> do_jump
      [] code = "O" -> do_turn
      [] OTHER -> do_action(code)

\* ---- the threads ----

Procs == {"main", "loop"}
Sensors == {"distance", "thermal"}
Sides == {"left", "right"}

\* start(), the calls of the main thread after construction
start == do_forward \o <<Op("startSensors", "", 0), Op("_startRandom", "", 0)>>

\* stop()
stop ==
    _handleAction("None", "W")
        \o <<Op("stopSensor", "distance", 0), Op("joinSensor", "distance", 0),
             Op("stopSensor", "thermal", 0), Op("joinSensor", "thermal", 0),
             Op("stopRandom", "", 0), Op("return", "", 0)>>

\* RandomAnimal.__init__ with the settings s, and the main thread about to call start()
RandomAnimal_init(s) ==
    /\ settings = s
    /\ age = 0
    /\ _currentAction = "None"
    /\ _timerDelay = 0
    /\ _timerAction = "None"
    /\ _timerAgeStart = 0
    /\ _interruptId = "None"
    /\ _interruptValue = -1
    /\ _interruptBeingHandled = FALSE
    /\ _runningRandom = FALSE
    /\ choice = "None"
    /\ _pauseDistanceSensor = FALSE
    /\ _pauseThermalSensor = FALSE
    /\ _runningSensor = [s2 \in Sensors |-> FALSE]
    /\ lastDistance = -1
    /\ sensorThreads = [s2 \in Sensors |-> [state |-> "none", id |-> "None", value |-> 0]]
    /\ is_pressed = [side \in Sides |-> FALSE]
    /\ headMovers = {}
    /\ procs = [p \in Procs |-> IF p = "main" THEN [state |-> "alive", todo |-> start]
                                              ELSE [state |-> "none", todo |-> <<>>]]
    /\ accepted = FALSE
    /\ raised = 0

DefaultSettings ==
    [HUMANTRACKING |-> FALSE, RANDOMWEIGHTS |-> DefaultWeights, RANDOMTIME |-> DefaultTimes]

\* The variables the behaviour loop never changes
fixedVars == <<jointVars, numPairs, _threads, legThreads, callers, settings, deviceVars>>
timerVars == <<_timerDelay, _timerAction, _timerAgeStart>>
interruptVars == <<_interruptId, _interruptValue, _interruptBeingHandled, accepted>>
pauseVars == <<_pauseDistanceSensor, _pauseThermalSensor>>
sensorVars == <<_runningSensor, lastDistance, sensorThreads, is_pressed, raised>>
threadVars == <<_stopped, _actionThread, actionThreads>>
loopVars == <<age, _currentAction, _runningRandom, choice>>

AtOp(p, o) ==
    /\ procs[p].state = "alive"
    /\ procs[p].todo # <<>>
    /\ procs[p].todo[1].op = o

CallOf(p) == procs[p].todo[1]

\* The call is made; calls are the calls it makes in turn
Then(p, calls) == [procs EXCEPT ![p].todo = calls \o Tail(@)]

Done(p) == Then(p, <<>>)

\* "if self._actionThread: self._actionThread.join()" does not block
ActionJoined == IF _actionThread = 0 THEN TRUE ELSE actionThreads[_actionThread].state = "dead"

\* ---- RandomAnimal.interrupt ----

\* interrupt(id, value) without its first test
interruptOverLive(id, value) ==
    IF id = "human-detect"
    THEN /\ _pauseDistanceSensor' = FALSE
         /\ _pauseThermalSensor' = FALSE
         /\ UNCHANGED interruptVars
    ELSE /\ _interruptId' = id
         /\ _interruptValue' = value
         /\ accepted' = (accepted \/ (id = "short-distance" /\ _currentAction = "F"))
         /\ UNCHANGED <<_interruptBeingHandled, pauseVars>>

\* interrupt(id, value) that takes human-detect as it takes the other interrupts
interruptHumanDetect(id, value) ==
    IF _interruptId # "None"
    THEN UNCHANGED <<interruptVars, pauseVars>>
    ELSE /\ _interruptId' = id
         /\ _interruptValue' = value
         /\ accepted' = (accepted \/ (id = "short-distance" /\ _currentAction = "F"))
         /\ UNCHANGED <<_interruptBeingHandled, pauseVars>>

interrupt(id, value) ==
    IF _interruptId # "None"
    THEN UNCHANGED <<interruptVars, pauseVars>>
    ELSE IF id = "human-detect"
         THEN /\ _pauseDistanceSensor' = FALSE
              /\ _pauseThermalSensor' = FALSE
              /\ UNCHANGED interruptVars
         ELSE /\ _interruptId' = id
              /\ _interruptValue' = value
              /\ accepted' = (accepted \/ (id = "short-distance" /\ _currentAction = "F"))
              /\ UNCHANGED <<_interruptBeingHandled, pauseVars>>

\* ---- the sensor threads and the antennae (head.py, animal.py) ----

\* self._runningDistanceSensor = True, self._runningThermalSensor = True
runSensor_begin(s) ==
    /\ sensorThreads[s].state = "created"
    /\ sensorThreads' = [sensorThreads EXCEPT ![s].state = "alive"]
    /\ _runningSensor' = [_runningSensor EXCEPT ![s] = TRUE]
    /\ UNCHANGED <<fixedVars, raised, timerVars, interruptVars, pauseVars, lastDistance, is_pressed,
                   threadVars, loopVars, headMovers, procs>>

\* One reading of runDistanceSensor, up to its call of interruptCallback
runDistanceSensor(dist) ==
    /\ sensorThreads["distance"].state = "alive"
    /\ sensorThreads["distance"].id = "None"
    /\ _runningSensor["distance"]
    /\ ~_pauseDistanceSensor
    /\ lastDistance' = dist
    /\ (dist < SHORTDISTANCE \/ dist > longDistance) => raised < MaxInterrupts
    /\ raised' = IF dist < SHORTDISTANCE \/ dist > longDistance THEN raised + 1 ELSE raised
    /\ IF dist < SHORTDISTANCE /\ dist > 1
       THEN /\ _pauseDistanceSensor' = TRUE
            /\ sensorThreads' = [sensorThreads EXCEPT !["distance"].id = "short-distance",
                                                      !["distance"].value = dist]
       ELSE IF dist > longDistance
            THEN /\ _pauseDistanceSensor' = TRUE
                 /\ sensorThreads' = [sensorThreads EXCEPT !["distance"].id = "long-distance",
                                                           !["distance"].value = dist]
            ELSE UNCHANGED <<_pauseDistanceSensor, sensorThreads>>
    /\ UNCHANGED <<fixedVars, timerVars, interruptVars, _pauseThermalSensor, _runningSensor,
                   is_pressed, threadVars, loopVars, headMovers, procs>>

\* One reading of runThermalSensor that finds the temperatures of a human
runThermalSensor ==
    /\ sensorThreads["thermal"].state = "alive"
    /\ sensorThreads["thermal"].id = "None"
    /\ _runningSensor["thermal"]
    /\ ~_pauseThermalSensor
    /\ raised < MaxInterrupts
    /\ raised' = raised + 1
    /\ _pauseThermalSensor' = TRUE
    /\ sensorThreads' = [sensorThreads EXCEPT !["thermal"].id = "human-detect"]
    /\ UNCHANGED <<fixedVars, timerVars, interruptVars, _pauseDistanceSensor, _runningSensor,
                   lastDistance, is_pressed, threadVars, loopVars, headMovers, procs>>

\* self.interruptCallback(id, value) of sensor thread s
interruptCallback(s) ==
    /\ sensorThreads[s].state = "alive"
    /\ sensorThreads[s].id # "None"
    /\ interrupt(sensorThreads[s].id, sensorThreads[s].value)
    /\ sensorThreads' = [sensorThreads EXCEPT ![s].id = "None", ![s].value = 0]
    /\ UNCHANGED <<fixedVars, raised, timerVars, _runningSensor, lastDistance, is_pressed,
                   threadVars, loopVars, headMovers, procs>>

\* "while self._runningDistanceSensor" ends the thread
runSensor_exit(s) ==
    /\ sensorThreads[s].state = "alive"
    /\ sensorThreads[s].id = "None"
    /\ ~_runningSensor[s]
    /\ sensorThreads' = [sensorThreads EXCEPT ![s].state = "dead"]
    /\ UNCHANGED <<fixedVars, raised, timerVars, interruptVars, pauseVars, _runningSensor, lastDistance,
                   is_pressed, threadVars, loopVars, headMovers, procs>>

\* _leftAntennaPressed, _rightAntennaPressed
_antennaPressed(side) ==
    /\ ~is_pressed[side]
    /\ raised < MaxInterrupts
    /\ raised' = raised + 1
    /\ is_pressed' = [is_pressed EXCEPT ![side] = TRUE]
    /\ interrupt(IF side = "left" THEN "left-antenna" ELSE "right-antenna", 0)
    /\ UNCHANGED <<fixedVars, timerVars, _runningSensor, lastDistance, sensorThreads,
                   threadVars, loopVars, headMovers, procs>>

\* The antenna is let go
AntennaReleased(side) ==
    /\ is_pressed[side]
    /\ is_pressed' = [is_pressed EXCEPT ![side] = FALSE]
    /\ UNCHANGED <<fixedVars, raised, timerVars, interruptVars, pauseVars, _runningSensor, lastDistance,
                   sensorThreads, threadVars, loopVars, headMovers, procs>>

\* ---- the calls of the main thread and of the _runRandom thread ----

\* joint.moveTo of the head joint begins
Call_move(p) ==
    /\ AtOp(p, "move")
    /\ headMovers' = headMovers \cup {p}
    /\ procs' = Done(p)
    /\ UNCHANGED <<fixedVars, timerVars, interruptVars, pauseVars, sensorVars, threadVars, loopVars>>

\* joint.moveTo of the head joint returns
Call_moved(p) ==
    /\ AtOp(p, "moved")
    /\ headMovers' = headMovers \ {p}
    /\ procs' = Done(p)
    /\ UNCHANGED <<fixedVars, timerVars, interruptVars, pauseVars, sensorVars, threadVars, loopVars>>

Call_pauseSensors(p) ==
    /\ AtOp(p, "pauseSensors")
    /\ _pauseDistanceSensor' = TRUE
    /\ _pauseThermalSensor' = TRUE
    /\ procs' = Done(p)
    /\ UNCHANGED <<fixedVars, timerVars, interruptVars, sensorVars, threadVars, loopVars, headMovers>>

Call_unPauseSensors(p) ==
    /\ AtOp(p, "unPauseSensors")
    /\ _pauseDistanceSensor' = FALSE
    /\ _pauseThermalSensor' = FALSE
    /\ procs' = Done(p)
    /\ UNCHANGED <<fixedVars, timerVars, interruptVars, sensorVars, threadVars, loopVars, headMovers>>

Call_clearInterrupt(p) ==
    /\ AtOp(p, "_clearInterrupt")
    /\ _interruptId' = "None"
    /\ _interruptBeingHandled' = FALSE
    /\ procs' = Done(p)
    /\ UNCHANGED <<fixedVars, timerVars, _interruptValue, accepted, pauseVars, sensorVars,
                   threadVars, loopVars, headMovers>>

\* stopCurrentAction: self._stopped = True
Call_stop(p) ==
    /\ AtOp(p, "stop")
    /\ _stopped' = TRUE
    /\ procs' = Done(p)
    /\ UNCHANGED <<fixedVars, timerVars, interruptVars, pauseVars, sensorVars, _actionThread,
                   actionThreads, loopVars, headMovers>>

\* stopCurrentAction: if self._actionThread: self._actionThread.join(); self._stopped = False
Call_join(p) ==
    /\ AtOp(p, "join")
    /\ ActionJoined
    /\ _stopped' = FALSE
    /\ procs' = Done(p)
    /\ UNCHANGED <<fixedVars, timerVars, interruptVars, pauseVars, sensorVars, _actionThread,
                   actionThreads, loopVars, headMovers>>

\* runAction: self._actionThread = Thread(target=func); self._actionThread.start(),
\* and _handleAction: self._currentAction = msg
Call_startThread(p) ==
    /\ AtOp(p, "startThread")
    /\ \E a \in ActionIds :
          /\ actionThreads[a].state = "dead"
          /\ \A b \in ActionIds : actionThreads[b].state = "dead" => a <= b
          /\ _actionThread' = a
          /\ actionThreads' = [actionThreads EXCEPT
                 ![a] = [state |-> "alive", func |-> CallOf(p).s, todo |-> <<>>,
                         pc |-> "run", ref |-> 0]]
    /\ _currentAction' = CallOf(p).k
    /\ procs' = Done(p)
    /\ UNCHANGED <<fixedVars, timerVars, interruptVars, pauseVars, sensorVars, _stopped,
                   age, _runningRandom, choice, headMovers>>

\* _handleAction(None, msg): self._currentAction = msg
Call_current(p) ==
    /\ AtOp(p, "current")
    /\ _currentAction' = CallOf(p).s
    /\ procs' = Done(p)
    /\ UNCHANGED <<fixedVars, timerVars, interruptVars, pauseVars, sensorVars, threadVars,
                   age, _runningRandom, choice, headMovers>>

\* _setTimer(delay, action)
Call_setTimer(p) ==
    /\ AtOp(p, "_setTimer")
    /\ _timerAgeStart' = age
    /\ _timerDelay' = CallOf(p).n
    /\ _timerAction' = CallOf(p).s
    /\ procs' = Done(p)
    /\ UNCHANGED <<fixedVars, interruptVars, pauseVars, sensorVars, threadVars, loopVars, headMovers>>

\* _setTimer(self._randint(self.settings['RANDOMTIME'][code]), action)
Call_randomTimer(p) ==
    /\ AtOp(p, "randomTimer")
    /\ \E delay \in _randint(RANDOMTIME(CallOf(p).k)) : _timerDelay' = delay
    /\ _timerAgeStart' = age
    /\ _timerAction' = CallOf(p).s
    /\ procs' = Done(p)
    /\ UNCHANGED <<fixedVars, interruptVars, pauseVars, sensorVars, threadVars, loopVars, headMovers>>

\* do_unwind: self._setTimer(self._timerDelay, 'J')
Call_sameTimer(p) ==
    /\ AtOp(p, "sameTimer")
    /\ _timerAgeStart' = age
    /\ _timerAction' = CallOf(p).s
    /\ procs' = Done(p)
    /\ UNCHANGED <<fixedVars, _timerDelay, interruptVars, pauseVars, sensorVars, threadVars,
                   loopVars, headMovers>>

\* do_look: self._timerAction = None
Call_noTimer(p) ==
    /\ AtOp(p, "noTimer")
    /\ _timerAction' = "None"
    /\ procs' = Done(p)
    /\ UNCHANGED <<fixedVars, _timerDelay, _timerAgeStart, interruptVars, pauseVars, sensorVars,
                   threadVars, loopVars, headMovers>>

\* _handleInterrupt: self._interruptId = "escape-left-antenna" (or right)
Call_setInterrupt(p) ==
    /\ AtOp(p, "setInterrupt")
    /\ _interruptId' = CallOf(p).s
    /\ procs' = Done(p)
    /\ UNCHANGED <<fixedVars, timerVars, _interruptValue, _interruptBeingHandled, accepted,
                   pauseVars, sensorVars, threadVars, loopVars, headMovers>>

\* ---- what the scans see ----

ScanDistances == {20, 200}
ScanPositions == {-100, 0, 100}

\* do_default after head.scan(), with no timer set for the escape
AfterScanNoTimer(movement, minDist, minLeftDist, minRightDist, minPos, maxPos) ==
    IF movement THEN do_trackMovement \o SetTimerRandom("T", "F")
    ELSE IF minDist < SHORTDISTANCE
    THEN (IF minLeftDist < SHORTDISTANCE /\ minRightDist < SHORTDISTANCE
          THEN (IF maxPos > 0 THEN do_backLeft ELSE do_backRight)
          ELSE IF minPos < 0 THEN do_rightNoCheck
          ELSE IF minPos > 0 THEN do_leftNoCheck
          ELSE do_backward)
    ELSE do_forward

\* do_default after head.scan() returned movement and the distances
AfterScan(movement, minDist, minLeftDist, minRightDist, minPos, maxPos) ==
    IF movement THEN do_trackMovement \o SetTimerRandom("T", "F")
    ELSE IF minDist < SHORTDISTANCE
    THEN (IF minLeftDist < SHORTDISTANCE /\ minRightDist < SHORTDISTANCE
          THEN (IF maxPos > 0 THEN do_backLeft ELSE do_backRight)
          ELSE IF minPos < 0 THEN do_rightNoCheck
          ELSE IF minPos > 0 THEN do_leftNoCheck
          ELSE do_backward) \o _setTimer(EscapeDelay, "F")
    ELSE do_forward

Call_do_default(p) ==
    /\ AtOp(p, "do_default")
    /\ \E movement \in BOOLEAN, minDist \in ScanDistances, minLeftDist \in ScanDistances,
          minRightDist \in ScanDistances, minPos \in ScanPositions, maxPos \in ScanPositions :
          /\ minDist <= minLeftDist
          /\ minDist <= minRightDist
          /\ procs' = Then(p, AfterScan(movement, minDist, minLeftDist, minRightDist, minPos, maxPos))
          /\ IF ~movement /\ minDist < SHORTDISTANCE
             THEN /\ _interruptId' = "escape"
                  /\ _interruptValue' = 0
             ELSE UNCHANGED <<_interruptId, _interruptValue>>
    /\ UNCHANGED <<fixedVars, timerVars, _interruptBeingHandled, accepted, pauseVars, sensorVars,
                   threadVars, loopVars, headMovers>>

\* do_look after head.look() returned movement, rearMovement
Call_do_look(p) ==
    /\ AtOp(p, "do_look")
    /\ \E movement \in BOOLEAN, rearMovement \in BOOLEAN :
          procs' = Then(p, IF movement THEN do_trackMovement \o SetTimerRandom("T", "F")
                           ELSE IF rearMovement THEN do_turn \o _setTimer(TurnDelay, "K")
                           ELSE do_forward)
    /\ UNCHANGED <<fixedVars, timerVars, interruptVars, pauseVars, sensorVars, threadVars,
                   loopVars, headMovers>>

\* do_left and do_right after clear_left() or clear_right() returned clear:
\* n = 1 after the scan of the own side, n = 2 after the scan of the other side
AfterClear(side, n, clear) ==
    IF n = 1
    THEN (IF clear
          THEN Head_move \o _handleAction(IF side = "L" THEN "_left" ELSE "_right", side)
          ELSE clear_side \o <<Op("do_side", side, 2)>>)
    ELSE (IF ~clear
          THEN (IF side = "L" THEN do_backLeft ELSE do_backRight)
          ELSE <<>>)

Call_do_side(p) ==
    /\ AtOp(p, "do_side")
    /\ \E clear \in BOOLEAN : procs' = Then(p, AfterClear(CallOf(p).s, CallOf(p).n, clear))
    /\ UNCHANGED <<fixedVars, timerVars, interruptVars, pauseVars, sensorVars, threadVars,
                   loopVars, headMovers>>

\* ---- _runRandom ----

\* self._runningRandom = True
Call_runRandom(p) ==
    /\ AtOp(p, "_runRandom")
    /\ _runningRandom' = TRUE
    /\ procs' = Done(p)
    /\ UNCHANGED <<fixedVars, timerVars, interruptVars, pauseVars, sensorVars, threadVars,
                   age, _currentAction, choice, headMovers>>

TimerDue == _timerAction # "None" /\ age - _timerAgeStart >= _timerDelay

\* _executeTimer that runs the action and empties the slot after it
ExecuteTimerLate(p) ==
    /\ procs' = Then(p, actionFunction(_timerAction)
                           \o <<Op("noTimer", "", 0), Op("iteration", "", 0)>>)
    /\ UNCHANGED <<timerVars, _interruptId, _interruptValue, _interruptBeingHandled, pauseVars,
                   choice>>

\* _executeTimer(); continue
ExecuteTimer(p) ==
    /\ _timerAction' = "None"
    /\ _timerDelay' = 0
    /\ _timerAgeStart' = 0
    /\ procs' = Then(p, actionFunction(_timerAction) \o <<Op("iteration", "", 0)>>)
    /\ UNCHANGED <<_interruptId, _interruptValue, _interruptBeingHandled, pauseVars, choice>>

\* do_checkEscape handlers that leave the timer as it is
StartNever(escaped) == UNCHANGED timerVars

\* self._setTimer(0, self._timerAction) of the do_checkEscape handlers
StartImmediately(escaped) ==
    IF escaped
    THEN /\ _timerAgeStart' = age
         /\ _timerDelay' = 0
         /\ UNCHANGED _timerAction
    ELSE UNCHANGED timerVars

\* The calls of _handleInterrupt that arm no timer for the antennae
InterruptCallsNoTimer ==
    CASE _interruptId = "short-distance" -> do_default
      [] _interruptId = "left-antenna" ->
            do_rightNoCheck \o <<Op("setInterrupt", "escape-left-antenna", 0)>>
      [] _interruptId = "right-antenna" ->
            do_leftNoCheck \o <<Op("setInterrupt", "escape-right-antenna", 0)>>
      [] _interruptId = "human-detect" -> do_trackMovement \o SetTimerRandom("T", "F")
      [] _interruptId = "long-distance" ->
            <<Op("_clearInterrupt", "", 0), Op("unPauseSensors", "", 0)>>
      [] OTHER -> <<>>

\* The calls of _handleInterrupt for self._interruptId
InterruptCalls ==
    CASE _interruptId = "short-distance" -> do_default
      [] _interruptId = "left-antenna" ->
            do_rightNoCheck \o <<Op("setInterrupt", "escape-left-antenna", 0)>>
                \o _setTimer(EscapeDelay, "F")
      [] _interruptId = "right-antenna" ->
            do_leftNoCheck \o <<Op("setInterrupt", "escape-right-antenna", 0)>>
                \o _setTimer(EscapeDelay, "F")
      [] _interruptId = "human-detect" -> do_trackMovement \o SetTimerRandom("T", "F")
      [] _interruptId = "long-distance" ->
            <<Op("_clearInterrupt", "", 0), Op("unPauseSensors", "", 0)>>
      [] OTHER -> <<>>

_handleInterrupt(p) ==
    IF ~_interruptBeingHandled /\ ~_stopped
    THEN /\ _interruptBeingHandled' = TRUE
         /\ procs' = Then(p, InterruptCalls \o <<Op("tick", "", 0)>>)
    ELSE /\ procs' = Then(p, <<Op("tick", "", 0)>>)
         /\ UNCHANGED _interruptBeingHandled

\* The random choice drawn by x, with no look at the space a run needs
DrawnUnfiltered(x) == choices(actions, settings.RANDOMWEIGHTS, x)

\* The random choice drawn by x, after "Don't allow run if not enough space"
Drawn(x) ==
    LET c == choices(actions, settings.RANDOMWEIGHTS, x)
    IN  IF c = "+" /\ (lastDistance = -1 \/ lastDistance < RUNSPACENEEDED) THEN "." ELSE c

\* The calls that start the choice c and set a timer for '*' whatever c is
ChoiceCallsDefaultTimer(c) ==
    IF c = "." THEN <<>> ELSE actionFunction(c) \o SetTimerRandom(c, "*")

\* The calls that start the choice c and set its timer
ChoiceCalls(c) ==
    IF c = "." THEN <<>>
    ELSE actionFunction(c) \o (IF c \in {"S", "U"} THEN SetTimerRandom(c, "J")
                               ELSE IF c # "K" THEN SetTimerRandom(c, "*")
                               ELSE <<>>)

\* "elif self._currentAction=="F" and self.age % 5 == 0" without the test of the age
DrawAllowedAnyAge == _currentAction = "F"

\* elif self._currentAction=="F" and self.age % 5 == 0: # every 5 seconds
DrawAllowed == _currentAction = "F" /\ age % Cadence = 0

\* "Now handle other situations in priority order", up to the sleep
OtherSituations(p) ==
    IF _interruptId = "escape"
    THEN /\ \E dist \in Distances : StartImmediately(dist > SHORTDISTANCE * 2)
         /\ procs' = Then(p, <<Op("tick", "", 0)>>)
         /\ UNCHANGED <<_interruptBeingHandled, choice>>
    ELSE IF _interruptId = "escape-left-antenna"
    THEN /\ StartImmediately(~is_pressed["left"])
         /\ procs' = Then(p, <<Op("tick", "", 0)>>)
         /\ UNCHANGED <<_interruptBeingHandled, choice>>
    ELSE IF _interruptId = "escape-right-antenna"
    THEN /\ StartImmediately(~is_pressed["right"])
         /\ procs' = Then(p, <<Op("tick", "", 0)>>)
         /\ UNCHANGED <<_interruptBeingHandled, choice>>
    ELSE IF _interruptId # "None"
    THEN /\ _handleInterrupt(p)
         /\ UNCHANGED <<timerVars, choice>>
    ELSE IF _currentAction = "T"
    THEN /\ procs' = Then(p, <<Op("tick", "", 0)>>)
         /\ UNCHANGED <<timerVars, _interruptBeingHandled, choice>>
    ELSE IF DrawAllowed
    THEN /\ \E x \in 0..(Total(settings.RANDOMWEIGHTS) - 1) :
               /\ choice' = Drawn(x)
               /\ procs' = Then(p, ChoiceCalls(Drawn(x)) \o <<Op("tick", "", 0)>>)
         /\ UNCHANGED <<timerVars, _interruptBeingHandled>>
    ELSE /\ procs' = Then(p, <<Op("tick", "", 0)>>)
         /\ UNCHANGED <<timerVars, _interruptBeingHandled, choice>>

\* The iteration with "other situations" looked at before the timer
InterruptFirst(p) ==
    IF _interruptId # "None" \/ ~TimerDue
    THEN /\ OtherSituations(p)
         /\ UNCHANGED <<_interruptId, _interruptValue, pauseVars>>
    ELSE ExecuteTimer(p)

\* One iteration of "while self._runningRandom", up to the first call it makes
TimerFirst(p) ==
    IF TimerDue
    THEN ExecuteTimer(p)
    ELSE /\ OtherSituations(p)
         /\ UNCHANGED <<_interruptId, _interruptValue, pauseVars>>

Call_iteration(p) ==
    /\ AtOp(p, "iteration")
    /\ IF _runningRandom
       THEN TimerFirst(p)
       ELSE /\ procs' = [procs EXCEPT ![p] = [state |-> "dead", todo |-> <<>>]]
            /\ UNCHANGED <<timerVars, _interruptId, _interruptValue, _interruptBeingHandled,
                           pauseVars, choice>>
    /\ accepted' = FALSE
    /\ UNCHANGED <<fixedVars, sensorVars, threadVars, age, _currentAction, _runningRandom,
                   headMovers>>

\* sleep(self.settings['TICKPERIOD']); self.age += 1, while the age is below maxAge
Tick(p, maxAge) ==
    /\ AtOp(p, "tick")
    /\ age < maxAge
    /\ age' = age + 1
    /\ choice' = "None"
    /\ procs' = Then(p, <<Op("iteration", "", 0)>>)
    /\ UNCHANGED <<fixedVars, timerVars, interruptVars, pauseVars, sensorVars, threadVars,
                   _currentAction, _runningRandom, headMovers>>

Call_tick(p) == Tick(p, MaxAge)

\* ---- start() and stop() on the main thread ----

\* head.startSensors()
Call_startSensors(p) ==
    /\ AtOp(p, "startSensors")
    /\ _pauseDistanceSensor' = FALSE
    /\ _pauseThermalSensor' = FALSE
    /\ sensorThreads' = [s \in Sensors |-> [sensorThreads[s] EXCEPT !.state = "created"]]
    /\ procs' = Done(p)
    /\ UNCHANGED <<fixedVars, timerVars, interruptVars, _runningSensor, lastDistance, is_pressed,
                   raised, threadVars, loopVars, headMovers>>

\* _startRandom()
Call_startRandom(p) ==
    /\ AtOp(p, "_startRandom")
    /\ procs' = [Done(p) EXCEPT !["loop"] =
                    [state |-> "alive",
                     todo |-> <<Op("_runRandom", "", 0), Op("iteration", "", 0)>>]]
    /\ UNCHANGED <<fixedVars, timerVars, interruptVars, pauseVars, sensorVars, threadVars,
                   loopVars, headMovers>>

\* The main thread calls stop() after start() returned
Call_stopAnimal(p) ==
    /\ p = "main"
    /\ procs[p].state = "alive"
    /\ procs[p].todo = <<>>
    /\ procs' = [procs EXCEPT ![p].todo = stop]
    /\ UNCHANGED <<fixedVars, timerVars, interruptVars, pauseVars, sensorVars, threadVars,
                   loopVars, headMovers>>

\* stopSensors: self._runningDistanceSensor = False (self._runningThermalSensor)
Call_stopSensor(p) ==
    /\ AtOp(p, "stopSensor")
    /\ _runningSensor' = [_runningSensor EXCEPT ![CallOf(p).s] = FALSE]
    /\ procs' = Done(p)
    /\ UNCHANGED <<fixedVars, timerVars, interruptVars, pauseVars, lastDistance, sensorThreads,
                   is_pressed, raised, threadVars, loopVars, headMovers>>

\* stopSensors: the join of the sensor thread; the thread object is let go
Call_joinSensor(p) ==
    /\ AtOp(p, "joinSensor")
    /\ sensorThreads[CallOf(p).s].state \in {"none", "dead"}
    /\ sensorThreads' = [sensorThreads EXCEPT ![CallOf(p).s].state = "none"]
    /\ procs' = Done(p)
    /\ UNCHANGED <<fixedVars, timerVars, interruptVars, pauseVars, _runningSensor, lastDistance,
                   is_pressed, raised, threadVars, loopVars, headMovers>>

\* stop: self._runningRandom = False
Call_stopRandom(p) ==
    /\ AtOp(p, "stopRandom")
    /\ _runningRandom' = FALSE
    /\ procs' = Done(p)
    /\ UNCHANGED <<fixedVars, timerVars, interruptVars, pauseVars, sensorVars, threadVars,
                   age, _currentAction, choice, headMovers>>

\* stop() returns
Call_return(p) ==
    /\ AtOp(p, "return")
    /\ procs' = [procs EXCEPT ![p] = [state |-> "dead", todo |-> <<>>]]
    /\ UNCHANGED <<fixedVars, timerVars, interruptVars, pauseVars, sensorVars, threadVars,
                   loopVars, headMovers>>

\* ---- the action thread, taken as a whole ----

\* The gaits that repeat until they see the stop flag
RepeatingActions ==
    {"_forward", "_run", "_crawl", "_backward", "_backLeft", "_backRight", "_left", "_right",
     "_point", "_eat", "_detectMovement"}

\* The target of action thread a returns
ActionReturns(a) ==
    /\ actionThreads[a].state = "alive"
    /\ actionThreads[a].func # "_trackMovement"
    /\ actionThreads[a].func \in RepeatingActions => _stopped
    /\ actionThreads' = [actionThreads EXCEPT ![a].state = "dead"]
    /\ UNCHANGED <<fixedVars, timerVars, interruptVars, pauseVars, sensorVars, _stopped,
                   _actionThread, loopVars, headMovers, procs>>

\* _trackMovement calls head.trackMovement(), which moves the head joint
\* when it sees movement off the centre
head_trackMovement(a, moves) ==
    /\ actionThreads[a].state = "alive"
    /\ actionThreads[a].func = "_trackMovement"
    /\ actionThreads[a].pc = "run"
    /\ headMovers' = IF moves THEN headMovers \cup {"action"} ELSE headMovers
    /\ actionThreads' = [actionThreads EXCEPT ![a].pc = "move"]
    /\ UNCHANGED <<fixedVars, timerVars, interruptVars, pauseVars, sensorVars, _stopped,
                   _actionThread, loopVars, procs>>

\* head.trackMovement() returns detected; the rest of the round of _trackMovement.
\* The rounds are not counted: tired says that this round is the one in which
\* noMovementCount passes 30, which any row of 31 rounds without movement ends in.
_trackMovement(a, detected, tired) ==
    /\ actionThreads[a].state = "alive"
    /\ actionThreads[a].func = "_trackMovement"
    /\ actionThreads[a].pc = "move"
    /\ headMovers' = headMovers \ {"action"}
    /\ IF settings.HUMANTRACKING
       THEN LET stopped == _stopped \/ (~detected /\ tired)
            IN  /\ _stopped' = stopped
                /\ actionThreads' = [actionThreads EXCEPT
                       ![a].pc = "run",
                       ![a].state = IF stopped THEN "dead" ELSE "alive"]
       ELSE /\ actionThreads' = [actionThreads EXCEPT ![a].pc = "run", ![a].state = "dead"]
            /\ UNCHANGED _stopped
    /\ UNCHANGED <<fixedVars, timerVars, interruptVars, pauseVars, sensorVars, _actionThread,
                   loopVars, procs>>

\* ---- the steps of the behaviour loop and of all that runs beside it ----

CallSteps(p) ==
    \/ Call_move(p)
    \/ Call_moved(p)
    \/ Call_pauseSensors(p)
    \/ Call_unPauseSensors(p)
    \/ Call_clearInterrupt(p)
    \/ Call_stop(p)
    \/ Call_join(p)
    \/ Call_startThread(p)
    \/ Call_setTimer(p)
    \/ Call_randomTimer(p)
    \/ Call_sameTimer(p)
    \/ Call_noTimer(p)
    \/ Call_setInterrupt(p)
    \/ Call_do_default(p)
    \/ Call_do_look(p)
    \/ Call_do_side(p)
    \/ Call_runRandom(p)
    \/ Call_iteration(p)
    \/ Call_tick(p)
    \/ Call_startSensors(p)
    \/ Call_startRandom(p)

\* The steps of stop() on the main thread
StopSteps(p) ==
    \/ Call_current(p)
    \/ Call_stopAnimal(p)
    \/ Call_stopSensor(p)
    \/ Call_joinSensor(p)
    \/ Call_stopRandom(p)
    \/ Call_return(p)

SensorSteps ==
    \/ \E s \in Sensors : runSensor_begin(s)
    \/ \E dist \in Distances : runDistanceSensor(dist)
    \/ runThermalSensor
    \/ \E s \in Sensors : interruptCallback(s)
    \/ \E side \in Sides : _antennaPressed(side)
    \/ \E side \in Sides : AntennaReleased(side)

\* The sensor threads see that they are to stop
SensorExitSteps == \E s \in Sensors : runSensor_exit(s)

ActionSteps ==
    \/ \E a \in ActionIds : ActionReturns(a)
    \/ \E a \in ActionIds, moves \in BOOLEAN : head_trackMovement(a, moves)
    \/ \E a \in ActionIds, detected \in BOOLEAN, tired \in BOOLEAN : _trackMovement(a, detected, tired)
(***************************************************************************)
(* Specifications                                                          *)
(***************************************************************************)

\* One Joint, called by one thread at a time
JointInit ==
    /\ Joint_init
    /\ Animal_init(1)
    /\ RandomAnimal_init(DefaultSettings)
    /\ LegPair_init(DefaultLegRanges)
    /\ DistanceSensor_init

JointNext ==
    \/ \E a \in Targets, t \in Durations : moveTo(a, t)
    \/ moveTo_step
    \/ moveTo_return
    \/ \E d \in Deltas, t \in Durations : moveRelativeToCurrent(d, t)
    \/ \E d \in Deltas, t \in Durations : moveRelativeToMid(d, t)
    \/ \E d \in Deltas, t \in Durations : moveRelativeToLow(d, t)
    \/ \E d \in Deltas, t \in Durations : moveRelativeToHigh(d, t)
    \/ \E a \in Targets : moveDirectTo(a)
    \/ moveDirectToMid
    \/ \E n \in NudgeAmounts : nudge(n)
    \/ \E s \in LegRangeSettings(jointKind), spd \in StepsPerDegreeSettings :
          applySettings(s, spd)

SpecJoint == JointInit /\ [][JointNext]_vars

\* An Animal of one, two or three pairs of legs whose actions are run and
\* stopped by one thread
GaitInit ==
    /\ Joint_init
    /\ jointKind = "head"
    /\ \E pairs \in 1..3 : Animal_init(pairs)
    /\ RandomAnimal_init(DefaultSettings)
    /\ LegPair_init(DefaultLegRanges)
    /\ DistanceSensor_init

GaitNext == CallerSteps("main", ActionFuncs) \/ ThreadSteps

SpecGait == GaitInit /\ [][GaitNext]_vars

\* An Animal whose actions are run and stopped by two threads
ConcurrentFuncs == {"_sit", "_eat"}

ActionInit ==
    /\ Joint_init
    /\ jointKind = "head"
    /\ Animal_init(1)
    /\ RandomAnimal_init(DefaultSettings)
    /\ LegPair_init(DefaultLegRanges)
    /\ DistanceSensor_init

ActionNext ==
    \/ \E c \in Callers : CallerSteps(c, ConcurrentFuncs)
    \/ ThreadSteps

SpecAction == ActionInit /\ [][ActionNext]_vars


\* The RandomAnimal of two pairs of legs (lizard.py) from start() on
SettingsChoices ==
    {[HUMANTRACKING |-> TRUE, RANDOMWEIGHTS |-> SitOnlyWeights,
      RANDOMTIME |-> ShortTimes],
     [HUMANTRACKING |-> FALSE, RANDOMWEIGHTS |-> FewWeights,
      RANDOMTIME |-> ShortTimes]}

Init ==
    /\ Joint_init
    /\ jointKind = "head"
    /\ Animal_init(2)
    /\ \E s \in SettingsChoices : RandomAnimal_init(s)
    /\ LegPair_init(DefaultLegRanges)
    /\ DistanceSensor_init

Next ==
    \/ \E p \in Procs : CallSteps(p)
    \/ SensorSteps
    \/ ActionSteps

Spec == Init /\ [][Next]_vars

\* The ticks of the behaviour loop while stop() is looked at
MaxStopAge == 2

\* What the distance sensor reads while stop() is looked at, in cm
StopDistances == {20, 200}

\* A RandomAnimal whose main thread calls stop() at some time after start()
\* returned; of the antennae the left one is pressed, and the thermal sensor
\* reads nothing of note
StopInit ==
    /\ Joint_init
    /\ jointKind = "head"
    /\ Animal_init(2)
    /\ RandomAnimal_init([HUMANTRACKING |-> FALSE, RANDOMWEIGHTS |-> FewWeights,
      RANDOMTIME |-> ShortTimes])
    /\ LegPair_init(DefaultLegRanges)
    /\ DistanceSensor_init

StopNext ==
    \/ \E p \in Procs : CallSteps(p) /\ age' <= MaxStopAge
    \/ Call_stopAnimal("main")
    \/ Call_current("main")
    \/ Call_stopSensor("main")
    \/ Call_joinSensor("main")
    \/ Call_stopRandom("main")
    \/ Call_return("main")
    \/ \E s \in Sensors : runSensor_begin(s)
    \/ \E dist \in StopDistances : runDistanceSensor(dist)
    \/ \E s \in Sensors : interruptCallback(s)
    \/ \E s \in Sensors : runSensor_exit(s)
    \/ _antennaPressed("left")
    \/ ActionSteps

SpecStop == StopInit /\ [][StopNext]_vars

\* The ticks of the behaviour loop while the escape from an antenna is looked at
MaxEscapeAge == 32

\* settings['RANDOMWEIGHTS'] that leave the current action as it is
StayWeights == <<1, 0, 0, 0, 0, 0, 0, 0, 0, 0, 0, 0, 0, 0>>

\* A RandomAnimal that keeps walking forward until an antenna is pressed, for
\* as many ticks as the timer of the escape takes
EscapeInit ==
    /\ Joint_init
    /\ jointKind = "head"
    /\ Animal_init(2)
    /\ RandomAnimal_init([HUMANTRACKING |-> FALSE, RANDOMWEIGHTS |-> StayWeights,
      RANDOMTIME |-> ShortTimes])
    /\ LegPair_init(DefaultLegRanges)
    /\ DistanceSensor_init

EscapeNext ==
    \/ \E p \in Procs : Call_move(p)
    \/ \E p \in Procs : Call_moved(p)
    \/ \E p \in Procs : Call_unPauseSensors(p)
    \/ \E p \in Procs : Call_clearInterrupt(p)
    \/ \E p \in Procs : Call_stop(p)
    \/ \E p \in Procs : Call_join(p)
    \/ \E p \in Procs : Call_startThread(p)
    \/ \E p \in Procs : Call_setTimer(p)
    \/ \E p \in Procs : Call_setInterrupt(p)
    \/ \E p \in Procs : Call_startSensors(p)
    \/ \E p \in Procs : Call_startRandom(p)
    \/ Call_runRandom("loop")
    \/ Call_iteration("loop")
    \/ Tick("loop", MaxEscapeAge)
    \/ \E s \in Sensors : runSensor_begin(s)
    \/ \E side \in Sides : _antennaPressed(side)
    \/ \E side \in Sides : AntennaReleased(side)
    \/ \E a \in ActionIds : ActionReturns(a)

SpecEscape == EscapeInit /\ [][EscapeNext]_vars

\* The two legs of a pair, calibrated, each making the movements of the walk
\* in any order
LegInit ==
    /\ Joint_init
    /\ jointKind = "head"
    /\ Animal_init(1)
    /\ RandomAnimal_init(DefaultSettings)
    /\ \E r \in LegRanges : LegPair_init(r)
    /\ DistanceSensor_init

LegNext == \E side \in LegSides, op \in WalkOps : Leg_call(side, op)

SpecLeg == LegInit /\ [][LegNext]_vars

\* readCm called again and again on a serial line that gives any of SerialReads
ReadInit ==
    /\ Joint_init
    /\ jointKind = "head"
    /\ Animal_init(1)
    /\ RandomAnimal_init(DefaultSettings)
    /\ LegPair_init(DefaultLegRanges)
    /\ DistanceSensor_init

ReadNext ==
    \/ readCm
    \/ \E read \in SerialReads : readCm_read(read)
    \/ readCm_parse

\* The thread that called readCm keeps running
SpecRead == ReadInit /\ [][ReadNext]_vars /\ WF_vars(ReadNext)

\* What the distance sensor reads while the random choices are looked at, in
\* cm: less and more than the space a run needs, and nothing that interrupts
RandomDistances == {50, 200}

\* A RandomAnimal with the default settings, which nothing interrupts: every
\* action of the random choice can be drawn, with the timers of
\* setDefaultSettings
RandomInit ==
    /\ Joint_init
    /\ jointKind = "head"
    /\ Animal_init(2)
    /\ RandomAnimal_init(DefaultSettings)
    /\ LegPair_init(DefaultLegRanges)
    /\ DistanceSensor_init

RandomNext ==
    \/ \E p \in Procs : Call_move(p)
    \/ \E p \in Procs : Call_moved(p)
    \/ \E p \in Procs : Call_pauseSensors(p)
    \/ \E p \in Procs : Call_unPauseSensors(p)
    \/ \E p \in Procs : Call_clearInterrupt(p)
    \/ \E p \in Procs : Call_stop(p)
    \/ \E p \in Procs : Call_join(p)
    \/ \E p \in Procs : Call_startThread(p)
    \/ \E p \in Procs : Call_setTimer(p)
    \/ \E p \in Procs : Call_randomTimer(p)
    \/ \E p \in Procs : Call_sameTimer(p)
    \/ \E p \in Procs : Call_noTimer(p)
    \/ \E p \in Procs : Call_do_default(p)
    \/ \E p \in Procs : Call_do_look(p)
    \/ \E p \in Procs : Call_do_side(p)
    \/ \E p \in Procs : Call_startSensors(p)
    \/ \E p \in Procs : Call_startRandom(p)
    \/ Call_runRandom("loop")
    \/ Call_iteration("loop")
    \/ Call_tick("loop")
    \/ runSensor_begin("distance")
    \/ \E dist \in RandomDistances : runDistanceSensor(dist)
    \/ ActionSteps

SpecRandom == RandomInit /\ [][RandomNext]_vars

\* The actions the behaviour calls poses
StaticPoses ==
    {"_alert", "_sit", "_unwind", "_kneesup", "_kneesdown", "_hipsforward", "_hipsbackward"}

PoseFuncs == StaticPoses \cup {"_point", "_eat"}

\* An Animal of one, two or three pairs of legs on which runAction is called
\* once, with a pose: nothing sets the stop flag while the pose goes on. The
\* action thread and the leg movement threads keep running
PoseInit ==
    /\ Joint_init
    /\ jointKind = "head"
    /\ \E pairs \in 1..3 : Animal_init(pairs)
    /\ RandomAnimal_init(DefaultSettings)
    /\ LegPair_init(DefaultLegRanges)
    /\ DistanceSensor_init

PoseThreadSteps ==
    \/ \E a \in ActionIds : _runOnThread_get(a)
    \/ \E a \in ActionIds : _runOnThread_join(a)
    \/ \E a \in ActionIds : _runOnThread_start(a)
    \/ \E a \in ActionIds : _runOnThread_store(a)
    \/ \E a \in ActionIds : _joinThreads_get(a)
    \/ \E a \in ActionIds : _joinThreads_join(a)
    \/ \E a \in ActionIds : IfStopped_break(a)
    \/ \E a \in ActionIds, r \in RandomDraws : NextCycle(a, r)
    \/ \E a \in ActionIds : ActionThreadEnds(a)
    \/ \E leg \in LegIds, k \in LegThreadIds : LegThreadEnds(leg, k)

PoseNext ==
    \/ runAction("main") /\ CallsMade = 0
    \/ stopCurrentAction_join("main")
    \/ stopCurrentAction_clear("main")
    \/ \E f \in PoseFuncs : runAction_create("main", f)
    \/ \E m \in FORWARDMOVEMENTS, r \in RandomDraws : runAction_start("main", m, r)
    \/ PoseThreadSteps

SpecPose == PoseInit /\ [][PoseNext]_vars /\ WF_vars(PoseThreadSteps)

\* An Animal of one, two or three pairs of legs on which runAction(_turn) is
\* called and, at any time after it or never, stopCurrentAction. The action
\* thread and the leg movement threads keep running
TurnNext ==
    \/ runAction("main") /\ CallsMade = 0
    \/ stopCurrentAction("main") /\ CallsMade = 1
    \/ stopCurrentAction_join("main")
    \/ stopCurrentAction_joined("main")
    \/ stopCurrentAction_clear("main")
    \/ runAction_create("main", "_turn")
    \/ \E m \in FORWARDMOVEMENTS, r \in RandomDraws : runAction_start("main", m, r)
    \/ ThreadSteps

SpecTurn == PoseInit /\ [][TurnNext]_vars /\ WF_vars(ThreadSteps)

\* The two legs of a pair, calibrated, each making the compound movements in
\* any order
MoveNext == \E side \in LegSides, op \in CompoundOps : Leg_move(side, op)

SpecMove == LegInit /\ [][MoveNext]_vars

\* The steps of action thread a
ActionThreadSteps(a) ==
    \/ _runOnThread_get(a)
    \/ _runOnThread_join(a)
    \/ _runOnThread_start(a)
    \/ _runOnThread_store(a)
    \/ _joinThreads_get(a)
    \/ _joinThreads_join(a)
    \/ _stopThreads_get(a)
    \/ _stopThreads_join(a)
    \/ IfStopped_break(a)
    \/ \E r \in RandomDraws : NextCycle(a, r)
    \/ ActionThreadEnds(a)

\* The steps of caller c inside a call of runAction or stopCurrentAction
CallerGoesOn(c) ==
    \/ stopCurrentAction_join(c)
    \/ stopCurrentAction_joined(c)
    \/ stopCurrentAction_clear(c)
    \/ \E f \in ConcurrentFuncs : runAction_create(c, f)
    \/ \E m \in FORWARDMOVEMENTS, r \in RandomDraws : runAction_start(c, m, r)

\* SpecAction with every thread running on: each caller inside a call, each
\* action thread, and each movement of a leg, which ends
SpecActionFair ==
    /\ ActionInit
    /\ [][ActionNext]_vars
    /\ \A c \in Callers : WF_vars(CallerGoesOn(c))
    /\ \A a \in ActionIds : WF_vars(ActionThreadSteps(a))
    /\ \A leg \in {"L0", "R0"}, k \in LegThreadIds : WF_vars(LegThreadEnds(leg, k))

\* The calls of thread p in SpecEscape
EscapeCalls(p) ==
    \/ Call_move(p)
    \/ Call_moved(p)
    \/ Call_unPauseSensors(p)
    \/ Call_clearInterrupt(p)
    \/ Call_stop(p)
    \/ Call_join(p)
    \/ Call_startThread(p)
    \/ Call_setTimer(p)
    \/ Call_setInterrupt(p)
    \/ Call_startSensors(p)
    \/ Call_startRandom(p)
    \/ Call_runRandom(p)
    \/ Call_iteration(p)
    \/ Tick(p, MaxEscapeAge)

\* SpecEscape with every thread running on: the main thread and the behaviour
\* loop go on to their next call, and the target of an action thread returns
\* when it is stopped
SpecEscapeFair ==
    /\ EscapeInit
    /\ [][EscapeNext]_vars
    /\ \A p \in Procs : WF_vars(EscapeCalls(p))
    /\ \A a \in ActionIds : WF_vars(ActionReturns(a))
(***************************************************************************)
(* Claims about Joint                                                      *)
(***************************************************************************)

WithinLimits(a) == FracLE(FracOfInt(lowAngle), a) /\ FracLE(a, FracOfInt(highAngle))

\* C7: for a joint with lowAngle <= highAngle, when moveTo, a moveRelativeTo*
\* or moveDirectTo has returned, the stored angle lies in [lowAngle, highAngle]
\* and the last angle given to the servo is the stored angle, whatever the
\* target and the duration were.
C7_MoveEndsWithinLimits ==
    (jpc = "idle" /\ lastCall \in {"moveTo", "moveDirectTo"} /\ lowAngle <= highAngle)
        => /\ lowAngle <= _angle
           /\ _angle <= highAngle
           /\ servoAngle = FracOfInt(_angle)

\* A move whose target lay below a calibrated lower limit has returned at the limit.
C7_Witness ==
    /\ jpc = "idle"
    /\ lastCall = "moveTo"
    /\ lowAngle <= highAngle
    /\ lowAngle > 20
    /\ _angle = lowAngle
    /\ sentCount > 1

\* C8 as claimed: in every reachable state the stored angle lies in
\* [lowAngle, highAngle], and so does every angle an eased move gives the servo.
C8_AngleAlwaysWithinLimits ==
    /\ lowAngle <= _angle
    /\ _angle <= highAngle
    /\ (jpc = "moveTo" /\ sentCount > 0) => WithinLimits(servoAngle)

\* C8 as amended: the stored angle, and every angle an eased move gives the
\* servo, lies in [lowAngle, highAngle] as long as the last call that returned
\* is the construction or a move (and lowAngle <= highAngle); nudge keeps the
\* angle in [0, 180] only and applySettings does not limit the angle again.
C8_AngleWithinLimitsAfterMoves ==
    /\ (lastCall \in {"init", "moveTo", "moveDirectTo"} /\ lowAngle <= highAngle)
          => /\ lowAngle <= _angle
             /\ _angle <= highAngle
             /\ (jpc = "moveTo" /\ sentCount > 0) => WithinLimits(servoAngle)
    /\ 0 <= _angle
    /\ _angle <= 180

\* An eased move between two calibrated limits is under way, several angles sent.
C8_Witness ==
    /\ jpc = "moveTo"
    /\ lastCall = "moveTo"
    /\ lowAngle > 20
    /\ lowAngle <= highAngle
    /\ sentCount > 2
    /\ servoAngle # FracOfInt(_angle)


(***************************************************************************)
(* Claims about the threads of Animal                                      *)
(***************************************************************************)

\* C1: for every leg id at most one movement thread started by _runOnThread is
\* alive at any instant.
C1_OneMovementThreadPerLeg ==
    \A leg \in LegIds : Cardinality(AliveLegThreads(leg)) <= 1

\* C2: at any instant at most one action thread started by runAction is alive,
\* whatever the interleaving of the callers of runAction and stopCurrentAction.
C2_OneActionThread == Cardinality(AliveActionThreads) <= 1

\* C3: in every gait no leg command of the next phase or the next cycle is
\* issued before every leg movement thread started in the current phase has
\* finished: a leg thread left alive by the _joinThreads that ended its phase
\* is never alive together with a leg thread started after that.
C3_PhaseBarrier ==
    \A l1 \in LegIds, l2 \in LegIds, k1 \in LegThreadIds, k2 \in LegThreadIds :
        ~(/\ legThreads[l1][k1].alive
          /\ legThreads[l1][k1].old
          /\ legThreads[l2][k2].alive
          /\ ~legThreads[l2][k2].old)


\* A call of interrupt is made: a sensor thread's callback, or an antenna goes down
InterruptCalled ==
    \/ \E s \in Sensors : sensorThreads[s].id # "None" /\ sensorThreads'[s].id = "None"
    \/ \E side \in Sides : ~is_pressed[side] /\ is_pressed'[side]

\* C4: a call of interrupt(id, value) made while an interrupt is live changes
\* neither the interrupt id, its value, the being-handled flag, the timer, the
\* current action nor the sensor pause flags
C4_InterruptWhileLiveIsNoOp ==
    [][(InterruptCalled /\ _interruptId # "None")
          => UNCHANGED <<_interruptId, _interruptValue, _interruptBeingHandled, timerVars,
                         _currentAction, pauseVars>>]_vars

\* The distance sensor has read 20 cm, paused itself and made its call, and
\* the interrupt that was live, of the left antenna, is still the one that is kept
C4_Witness ==
    /\ _interruptId = "left-antenna"
    /\ _interruptValue = 0
    /\ ~_interruptBeingHandled
    /\ raised = 2
    /\ lastDistance = 20
    /\ sensorThreads["distance"].id = "None"
    /\ _pauseDistanceSensor
    /\ ~_pauseThermalSensor

\* The behaviour loop begins an iteration
LoopIterates == AtOp("loop", "iteration") /\ procs'["loop"] # procs["loop"]

\* C5: an iteration that begins with a timer due and an interrupt live and not
\* being handled makes the calls of the timer's action and then begins the next
\* iteration; the interrupt is not marked as being handled
C5_TimerPrecedence ==
    [][(LoopIterates /\ _runningRandom /\ TimerDue /\ _interruptId # "None"
            /\ ~_interruptBeingHandled)
          => /\ procs'["loop"].todo = actionFunction(_timerAction) \o <<Op("iteration", "", 0)>>
             /\ _timerAction' = "None"
             /\ ~_interruptBeingHandled']_vars

\* The timer 'J' set after a sit has just been served although a short-distance
\* interrupt was live when the iteration began
C5_Witness ==
    /\ procs["loop"].state = "alive"
    /\ procs["loop"].todo = do_jump \o <<Op("iteration", "", 0)>>
    /\ _currentAction = "S"
    /\ _interruptId = "short-distance"
    /\ ~_interruptBeingHandled
    /\ sensorThreads["distance"].id = "None"
    /\ raised = 1

\* C6: the head joint is never inside two moves at once
C6_HeadJointOneMover == Cardinality(headMovers) <= 1

DefaultScanning ==
    /\ procs["loop"].state = "alive"
    /\ \E i \in 1..Len(procs["loop"].todo) : procs["loop"].todo[i].op = "do_default"
    /\ procs["loop"].todo[1].op \notin {"stop", "join"}

C10_NoZeroWeightChoice ==
    /\ choice \notin {"None", "."} => Weight(choice) > 0
    /\ choice = "." => (Weight(".") > 0 \/ Weight("+") > 0)
    /\ settings.RANDOMWEIGHTS = SitOnlyWeights => choice \in {"None", "S"}

\* The draw at age 5, with all the weight on 'S', has chosen 'S'
C10_Witness ==
    /\ settings.RANDOMWEIGHTS = SitOnlyWeights
    /\ age = Cadence
    /\ choice = "S"

(***************************************************************************)
(* Claims about _handleAction, the gaits' stop flag and _stopMovements     *)
(***************************************************************************)

\* The thread object a is started
ActionThreadStarts(a) ==
    actionThreads[a].state = "created" /\ actionThreads'[a].state = "alive"

\* C11: runAction, as _handleAction calls it, starts the new action thread after
\* the stop flag was set, the previous action thread was joined and the flag
\* was cleared: when an action thread is started no other action thread and
\* no leg movement thread is alive, whatever the action before it
C11_StartsAfterPreviousEnded ==
    [][\A a \in ActionIds :
          ActionThreadStarts(a)
              => /\ AliveActionThreads = {}
                 /\ \A leg \in LegIds : AliveLegThreads(leg) = {}
                 /\ ~_stopped]_vars

\* _bounce, which moves the front legs only, was started by the second call,
\* after an action that moved the second pair of legs
C11_Witness ==
    /\ numPairs = 2
    /\ callers["main"].calls = 2
    /\ callers["main"].pc = "idle"
    /\ _actionThread # 0
    /\ actionThreads[_actionThread].state = "alive"
    /\ actionThreads[_actionThread].func = "_bounce"
    /\ _threads["L1"] # 0

\* The action functions that repeat their cycle until they read the stop flag set
RepeatingGaits ==
    {"_forward", "_backward", "_backLeft", "_backRight", "_right", "_left", "_point",
     "_eat", "_turn"}

PushFuncs == {"pushBackward", "pushForward"}

\* Action thread a, alive, runs a repeating gait
Repeating(a) ==
    actionThreads[a].state = "alive" /\ actionThreads[a].func \in RepeatingGaits

\* C12: every repeating gait tests the stop flag after its reach phase: no gait
\* is, with the flag set, at the join that ends a reach phase with a leg
\* command of the push phase as its next call
C12_StopFlagAtPhaseBoundary ==
    \A a \in ActionIds :
        ~(/\ Repeating(a)
          /\ _stopped
          /\ Len(actionThreads[a].todo) >= 2
          /\ actionThreads[a].todo[1].op = "join"
          /\ actionThreads[a].todo[1].last
          /\ actionThreads[a].todo[2].op = "run"
          /\ actionThreads[a].todo[2].func \in PushFuncs)

\* C12 as amended: a repeating gait tests the stop flag once in a cycle, as the
\* last call of the cycle, after a join; and a test that finds the flag set is
\* followed by the calls of _stopMovements only, so by no leg command
C12_StopFlagOncePerCycle ==
    /\ [](\A a \in ActionIds :
            Repeating(a)
                => \A i \in 1..Len(actionThreads[a].todo) :
                      actionThreads[a].todo[i].op = "check"
                          => /\ i = Len(actionThreads[a].todo) - 1
                             /\ actionThreads[a].todo[i + 1].op = "loop"
                             /\ i > 1 => actionThreads[a].todo[i - 1].op = "join")
    /\ [][\A a \in ActionIds :
            (Repeating(a) /\ At(a, "check", "get") /\ _stopped
                 /\ actionThreads'[a] # actionThreads[a])
                => /\ actionThreads'[a].state = "alive"
                   /\ Len(actionThreads'[a].todo) = numLegs
                   /\ \A i \in 1..numLegs : actionThreads'[a].todo[i].op = "stop"]_vars

\* _backward has read the stop flag set and is about to stop the movements
C12_Witness ==
    \E a \in ActionIds :
        /\ Repeating(a)
        /\ actionThreads[a].func = "_backward"
        /\ _stopped
        /\ actionThreads[a].todo = _stopMovements
        /\ actionThreads[a].pc = "get"

\* No leg has a movement thread in its slot or alive
NoLegThreads ==
    \A leg \in LegIds : _threads[leg] = 0 /\ AliveLegThreads(leg) = {}

\* C13: when the last turn of _stopThreads is done, and so _stopMovements
\* returns, every leg movement thread has ended and every slot of _threads is
\* empty; and the thread of a repeating gait ends in that state only, with
\* the stop flag set unless it is _turn, which also ends after its last cycle
C13_StopMovementsJoinsAll ==
    /\ [][\A a \in ActionIds :
            (At(a, "stop", "join") /\ Len(actionThreads[a].todo) = 1
                 /\ actionThreads'[a] # actionThreads[a])
                => NoLegThreads']_vars
    /\ [][\A a \in ActionIds :
            (Repeating(a) /\ actionThreads'[a].state = "dead")
                => /\ NoLegThreads
                   /\ actionThreads[a].func # "_turn" => _stopped]_vars

\* _left on three pairs of legs has read the stop flag set and _stopMovements
\* has returned
C13_Witness ==
    \E a \in ActionIds :
        /\ Repeating(a)
        /\ numPairs = 3
        /\ actionThreads[a].func = "_left"
        /\ actionThreads[a].todo = <<>>
        /\ _stopped
        /\ NoLegThreads

(***************************************************************************)
(* Claims about stop(), the interrupts and the timer of RandomAnimal       *)
(***************************************************************************)

\* stop() has returned
StopReturned == procs["main"].state = "dead"

\* C14: once stop() has returned the behaviour loop is not left running with
\* _runningRandom set, and no action thread is started any more
C14_StoppedAfterStop ==
    /\ [](StopReturned /\ procs["loop"].state = "alive" => ~_runningRandom)
    /\ [][StopReturned
             => \A a \in ActionIds :
                   ~(actionThreads[a].state # "alive" /\ actionThreads'[a].state = "alive")]_vars

\* The thermal sensor thread calls interruptCallback("human-detect", maxtemp)
HumanDetectCallback ==
    /\ sensorThreads["thermal"].id = "human-detect"
    /\ sensorThreads'["thermal"].id = "None"

\* C15: a human-detect interrupt raised by the thermal sensor while no
\* interrupt is live is accepted: it becomes the live interrupt, which the next
\* iteration of the behaviour loop handles by tracking
C15_HumanDetectAccepted ==
    [][(HumanDetectCallback /\ _interruptId = "None")
           => _interruptId' = "human-detect"]_vars

\* C15 as amended: a human-detect interrupt raised while no interrupt is live
\* is ignored: the interrupt slot, the timer, the current action and the
\* action thread stay as they are and both sensors are un-paused; human-detect
\* is never the live interrupt
C15_HumanDetectIgnored ==
    /\ [](_interruptId # "human-detect")
    /\ [][(HumanDetectCallback /\ _interruptId = "None")
             => /\ UNCHANGED <<_interruptId, _interruptValue, _interruptBeingHandled>>
                /\ UNCHANGED <<timerVars, _currentAction, threadVars>>
                /\ ~_pauseDistanceSensor'
                /\ ~_pauseThermalSensor']_vars

\* The one interrupt raised so far came from the thermal sensor and its callback
\* has returned: no interrupt has ever been accepted
C15_Witness ==
    /\ raised = 1
    /\ sensorThreads["thermal"].state = "alive"
    /\ sensorThreads["thermal"].id = "None"
    /\ sensorThreads["distance"].id = "None"
    /\ ~is_pressed["left"]
    /\ ~is_pressed["right"]
    /\ _interruptId = "None"
    /\ _interruptValue = -1
    /\ ~_pauseThermalSensor
    /\ lastDistance # 20

EscapeIds == {"escape-left-antenna", "escape-right-antenna"}

\* The behaviour loop is at the sleep that ends an iteration or about to begin
\* the next one, while the escape from a pressed antenna goes on
Escaping ==
    /\ _interruptId \in EscapeIds
    /\ AtOp("loop", "tick") \/ AtOp("loop", "iteration")

\* The age at which the timer comes due
TimerDeadline == _timerAgeStart + _timerDelay

\* C16: _handleInterrupt answers a left-antenna (right-antenna) interrupt by
\* starting the gait _right (_left), making the interrupt
\* escape-left-antenna (escape-right-antenna) and arming a timer of 30 ticks
\* for 'F'. While the escape goes on that gait is the current action, the
\* timer stays armed for 'F', its deadline is never put off and the age never
\* passes it but by the one tick that follows an escape found by
\* do_checkEscape*Antenna; the iteration that finds the timer due empties the
\* slot and runs do_forward, so forward is the action again at most 30 ticks
\* after the dispatch
C16_AntennaEscape ==
    /\ [](Escaping
            => /\ _interruptBeingHandled
               /\ _currentAction = (IF _interruptId = "escape-left-antenna" THEN "R" ELSE "L")
               /\ _actionThread # 0
               /\ actionThreads[_actionThread].func
                      = (IF _interruptId = "escape-left-antenna" THEN "_right" ELSE "_left")
               /\ _timerAction = "F"
               /\ _timerDelay \in {0, EscapeDelay}
               /\ _timerAgeStart <= age
               /\ \/ age <= TimerDeadline
                  \/ AtOp("loop", "iteration") /\ _timerDelay = 0 /\ age = _timerAgeStart + 1)
    /\ [][(_interruptId \in {"left-antenna", "right-antenna"} /\ _interruptId' \in EscapeIds)
             => /\ _interruptId' = (IF _interruptId = "left-antenna" THEN "escape-left-antenna"
                                    ELSE "escape-right-antenna")
                /\ procs'["loop"].todo[1] = Op("_setTimer", "F", EscapeDelay)]_vars
    /\ [][(Escaping /\ Escaping')
             => /\ _interruptId' = _interruptId
                /\ TimerDeadline' <= TimerDeadline]_vars
    /\ [][(Escaping /\ AtOp("loop", "iteration") /\ TimerDue /\ procs'["loop"] # procs["loop"])
             => /\ _timerAction' = "None"
                /\ SubSeq(procs'["loop"].todo, 1, Len(do_forward)) = do_forward]_vars

\* The left antenna was pressed once and is still held down, and 30 ticks or
\* more have gone by: the timer of the escape has come due and forward is
\* the action again
C16_Witness ==
    /\ age >= EscapeDelay
    /\ raised = 1
    /\ is_pressed["left"]
    /\ _interruptValue = 0
    /\ _interruptId = "None"
    /\ _timerAction = "None"
    /\ _currentAction = "F"
    /\ AtOp("loop", "tick")

(***************************************************************************)
(* Claims about the legs and the distance sensor                           *)
(***************************************************************************)

\* Twice the angle about which the hips of the two legs are mirrored
HipAxis2 == legs["left"].hip.midAngle + legs["right"].hip.midAngle

\* The limits of the right hip are the mirror images of those of the left hip
MirrorLimits ==
    /\ legs["right"].hip.lowAngle = HipAxis2 - legs["left"].hip.highAngle
    /\ legs["right"].hip.highAngle = HipAxis2 - legs["left"].hip.lowAngle

\* The last call on each of the two legs was the same movement of the walk
SameWalkOp ==
    /\ moved["left"].op \in WalkOps
    /\ moved["right"].op = moved["left"].op

OppositeDeltas == moved["left"].delta = -moved["right"].delta

\* C17: a left and a right leg with mirror-symmetric limits that make the
\* same movement of the walk (reachForward, reachBackward, pushForward,
\* pushBackward) from the same hip angle change their hip angles by the same
\* amount in opposite directions
C17_SameAngleOppositeDeltas ==
    (SameWalkOp /\ MirrorLimits /\ moved["left"].from = moved["right"].from)
        => OppositeDeltas

\* C17 as amended: the two legs change their hip angles by the same amount in
\* opposite directions when they make the same movement from hip angles that
\* are mirror images of each other, as both at the mid angle are; and after
\* the movement the hip angles are mirror images of each other, whatever the
\* angles before it
C17_MirrorAngleOppositeDeltas ==
    (SameWalkOp /\ MirrorLimits)
        => /\ moved["left"].from + moved["right"].from = HipAxis2 => OppositeDeltas
           /\ (moved["left"].from + moved["left"].delta)
                  + (moved["right"].from + moved["right"].delta) = HipAxis2

\* Both legs have made pushBackward from the hip angles reachForward left them
\* at, which are mirror images and not the same angle, and the hips have moved
C17_Witness ==
    /\ SameWalkOp
    /\ MirrorLimits
    /\ moved["left"].op = "pushBackward"
    /\ moved["left"].from + moved["right"].from = HipAxis2
    /\ moved["left"].from # moved["right"].from
    /\ moved["left"].delta > 0
    /\ legs["left"].hip.midAngle # legs["right"].hip.midAngle

\* A call of readCm is in progress
Reading == rd.pc \in {"read", "parse"}

\* C18: readCm terminates without raising whatever the serial line gives: each
\* of its loops counts its turns and gives up after 20, every step of the call
\* takes the counters further or returns, and the call that has begun
\* returns; what it returns is errorDistance (1000) or a distance within
\* [minDistance, maxDistance] = [5, 700]
C18_ReadCmTerminates ==
    /\ [](rd.pc # "raised")
    /\ [](rd.tries <= MaxTries + 1 /\ rd.tries2 <= MaxTries + 1)
    /\ [][Reading
             => \/ rd'.pc = "returned"
                \/ rd'.tries > rd.tries
                \/ rd'.tries = rd.tries /\ rd'.tries2 > rd.tries2]_vars
    /\ [](Reading => <>(rd.pc = "returned"))
    /\ [](rd.pc = "returned"
            => \/ rd.result = errorDistance
               \/ rd.result >= minDistance /\ rd.result <= maxDistance)

\* readCm has returned the lowest distance, 5, for a frame that gave the
\* distance 0, in the last turn its outer loop could make
C18_Witness ==
    /\ rd.pc = "returned"
    /\ rd.result = minDistance
    /\ rd.distance = 0
    /\ rd.tries = MaxTries

\* runDistanceSensor reads the sentinel errorDistance
SentinelReading == lastDistance # errorDistance /\ lastDistance' = errorDistance

IterationBegins ==
    /\ AtOp("loop", "iteration")
    /\ _runningRandom
    /\ procs'["loop"] # procs["loop"]

\* A thread makes one of the calls that arm the timer again or take it away
TimerCall ==
    \E p \in Procs :
        /\ \/ AtOp(p, "_setTimer")
           \/ AtOp(p, "randomTimer")
           \/ AtOp(p, "sameTimer")
           \/ AtOp(p, "noTimer")
        /\ procs'[p] # procs[p]

\* C20: a timer fires in the first iteration that finds age - t >= d and in no
\* earlier one: an iteration that finds the timer due empties the slot and
\* goes on with the calls of the target action and then "continue", an
\* iteration that does not find it due leaves it armed for the same action;
\* the slot changes by the firing, by the do_checkEscape handlers and by the
\* calls that arm or cancel a timer only, and _setTimer arms the timer at the
\* age of its call, so that the timer the target action arms stays armed
C20_TimerFiresOnce ==
    /\ [][IterationBegins
             => IF TimerDue
                THEN /\ _timerAction' = "None"
                     /\ _timerDelay' = 0
                     /\ _timerAgeStart' = 0
                     /\ procs'["loop"].todo
                            = actionFunction(_timerAction) \o <<Op("iteration", "", 0)>>
                ELSE _timerAction' = _timerAction]_vars
    /\ [][(_timerAction # "None" /\ _timerAction' = "None")
             => \/ IterationBegins /\ age - _timerAgeStart >= _timerDelay
                \/ \E p \in Procs : AtOp(p, "noTimer")]_vars
    /\ [][timerVars' # timerVars => IterationBegins \/ TimerCall]_vars
    /\ [][\A p \in Procs :
             (AtOp(p, "_setTimer") /\ procs'[p] # procs[p])
                 => /\ _timerAction' = CallOf(p).s
                    /\ _timerDelay' = CallOf(p).n
                    /\ _timerAgeStart' = age]_vars

\* The timer for 'J' has fired and do_jump, its target, has armed the timer for
\* 'F': the behaviour loop is back at the top of its loop with that timer armed
C20_Witness ==
    /\ AtOp("loop", "iteration")
    /\ _currentAction = "J"
    /\ _timerAction = "F"
    /\ _timerDelay = JumpDelay
    /\ _timerAgeStart = age

(***************************************************************************)
(* Claims about the random choice of _runRandom                            *)
(***************************************************************************)

\* The behaviour loop has drawn a choice other than '.' in this iteration, has
\* made the calls of the choice and is at the sleep that ends the iteration
DrawnAtTick == AtOp("loop", "tick") /\ choice \notin {"None", "."}

\* The timer is armed at this age for target, with a delay of the range of code
ArmedNow(code, target) ==
    /\ _timerAction = target
    /\ _timerAgeStart = age
    /\ _timerDelay \in _randint(RANDOMTIME(code))

Draws == choice' # choice /\ choice' # "None"

\* The behaviour loop begins an iteration while it tracks and nothing else
\* asks for its attention
TrackingIteration ==
    /\ IterationBegins
    /\ _currentAction = "T"
    /\ ~TimerDue
    /\ _interruptId = "None"

\* C22: a choice is drawn only by an iteration of the behaviour loop that
\* finds no timer due, no interrupt live, 'F' as the current action and an age
\* that is a multiple of 5; an iteration that finds 'T' as the current action,
\* no timer due and no interrupt live goes to its sleep with nothing else
\* done, and the sleep leaves the current action, the action thread and the
\* timer as they are
C22_DrawOnlyWhenForward ==
    /\ [][Draws
             => /\ IterationBegins
                /\ ~TimerDue
                /\ _interruptId = "None"
                /\ _currentAction = "F"
                /\ age % Cadence = 0]_vars
    /\ [][TrackingIteration
             => /\ procs'["loop"].todo = <<Op("tick", "", 0)>>
                /\ UNCHANGED <<_currentAction, timerVars, threadVars, choice>>]_vars
    /\ [][(AtOp("loop", "tick") /\ procs'["loop"] # procs["loop"])
             => UNCHANGED <<_currentAction, timerVars, threadVars>>]_vars

\* The tracking started one tick ago with a timer of two ticks, and the
\* iteration of this age has left it alone
C22_Witness ==
    /\ AtOp("loop", "tick")
    /\ _currentAction = "T"
    /\ _interruptId = "None"
    /\ _timerAction = "F"
    /\ _timerDelay = 2
    /\ age = _timerAgeStart + 1
    /\ choice = "None"
    /\ actionThreads[_actionThread].func = "_trackMovement"

\* The last known distance is unknown or leaves no space for a run
NoRunSpace == lastDistance = -1 \/ lastDistance < RUNSPACENEEDED

\* Action thread a is started for _run
RunStarts(a) ==
    /\ actionThreads[a].state # "alive"
    /\ actionThreads'[a].state = "alive"
    /\ actionThreads'[a].func = "_run"

\* C23: a draw made while the last known distance is unknown or below
\* RUNSPACENEEDED never gives '+', and a thread for _run is started for a draw
\* of '+' only; an iteration whose draw gives '.', as it does in place of a
\* '+' that finds no space, goes to its sleep with nothing else done: the
\* current action, the action thread, the timer and the interrupt are as
\* they were
C23_NoRunWithoutSpace ==
    /\ [][(Draws /\ NoRunSpace) => choice' # "+"]_vars
    /\ [][\A a \in ActionIds : RunStarts(a) => choice = "+" /\ AtOp("loop", "startThread")]_vars
    /\ [][(Draws /\ choice' = ".")
             => /\ procs'["loop"].todo = <<Op("tick", "", 0)>>
                /\ UNCHANGED <<_currentAction, threadVars, timerVars>>
                /\ UNCHANGED <<_interruptId, _interruptValue, _interruptBeingHandled>>]_vars

\* At age 5 an obstacle met before is 20 cm ahead, the walk forward goes on
\* and the draw, which could have given '+', has given '.'
C23_Witness ==
    /\ AtOp("loop", "tick")
    /\ Weight("+") > 0
    /\ age = Cadence
    /\ lastDistance = 20
    /\ choice = "."
    /\ _currentAction = "F"
    /\ _interruptId = "None"
    /\ _timerAction = "None"

(***************************************************************************)
(* Claims about the escapes and the return to the walk forward             *)
(***************************************************************************)

\* The live interrupt is one of the escapes
EscapeLive == _interruptId \in {"escape"} \cup EscapeIds

\* The behaviour loop begins an iteration during an escape with no timer due
PollIteration == IterationBegins /\ EscapeLive /\ ~TimerDue

\* self._setTimer(0, self._timerAction): the timer is due at once, for the
\* action it was armed for
TimerStartsNow ==
    /\ _timerDelay' = 0
    /\ _timerAgeStart' = age
    /\ _timerAction' = _timerAction

\* The antenna of the escape that goes on
EscapeSide == IF _interruptId = "escape-left-antenna" THEN "left" ELSE "right"

\* C24: during an escape the timer is armed when an iteration begins. An
\* iteration that finds no timer due does nothing but the check of the
\* escape and goes to its sleep: the timer is left as it is or is made due
\* at once for the same action, and for the escape from an antenna it is
\* left as it is when the antenna is pressed and made due when it is not. The
\* sleep leaves the timer alone, and the next iteration finds the timer
\* due, empties it and goes on with the calls of its action
C24_EscapeCheck ==
    /\ []((EscapeLive /\ AtOp("loop", "iteration")) => _timerAction = "F")
    /\ [][PollIteration
             => /\ procs'["loop"].todo = <<Op("tick", "", 0)>>
                /\ UNCHANGED <<_currentAction, threadVars>>
                /\ UNCHANGED <<_interruptId, _interruptValue, _interruptBeingHandled>>
                /\ UNCHANGED timerVars \/ TimerStartsNow]_vars
    /\ [][(PollIteration /\ _interruptId \in EscapeIds)
             => IF is_pressed[EscapeSide] THEN UNCHANGED timerVars ELSE TimerStartsNow]_vars
    /\ [][(AtOp("loop", "tick") /\ EscapeLive /\ procs'["loop"] # procs["loop"])
             => /\ procs'["loop"].todo = <<Op("iteration", "", 0)>>
                /\ UNCHANGED timerVars]_vars
    /\ [][(IterationBegins /\ EscapeLive /\ _timerDelay = 0)
             => /\ _timerAction' = "None"
                /\ procs'["loop"].todo
                       = actionFunction(_timerAction) \o <<Op("iteration", "", 0)>>]_vars

\* The left antenna was let go during the escape from it and the check of
\* this iteration has made the timer for 'F' due
C24_Witness ==
    /\ AtOp("loop", "tick")
    /\ _interruptId = "escape-left-antenna"
    /\ ~is_pressed["left"]
    /\ _currentAction = "R"
    /\ _timerAction = "F"
    /\ _timerDelay = 0
    /\ _timerAgeStart = age

\* The interrupts as the sensors and the antennae raise them
RaisedIds == {"short-distance", "long-distance", "left-antenna", "right-antenna", "human-detect"}

\* The call that starts the forward gait and makes 'F' the current action
StartForward == OpFor("startThread", "_forward", 0, "F")

\* No interrupt is being handled, and the live interrupt if any is as it was raised
ClearedSince == ~_interruptBeingHandled /\ _interruptId \in RaisedIds \cup {"None"}

\* C25: 'F' becomes the current action by the last call of do_forward only,
\* which starts the forward gait; a thread that has this call to make has
\* the call of _clearInterrupt before it or has made it, and since then no
\* interrupt is being handled and the live interrupt, if any, is one raised
\* after it; so at the sleep and at the beginning of every iteration with
\* 'F' as the current action no interrupt is being handled
C25_ForwardClearsInterrupt ==
    /\ [][(_currentAction' = "F" /\ _currentAction' # _currentAction)
             => \E p \in Procs :
                   /\ AtOp(p, "startThread")
                   /\ CallOf(p) = StartForward
                   /\ procs'[p] # procs[p]
                   /\ actionThreads'[_actionThread'].func = "_forward"]_vars
    /\ [](\A p \in Procs : \A i \in 1..Len(procs[p].todo) :
             procs[p].todo[i] = StartForward
                 => \/ \E j \in 1..(i - 1) : procs[p].todo[j].op = "_clearInterrupt"
                    \/ ClearedSince)
    /\ []((_currentAction = "F" /\ (AtOp("loop", "tick") \/ AtOp("loop", "iteration")))
             => ClearedSince)

\* The walk forward has begun again after an obstacle at 20 cm, and the left
\* antenna, pressed since, has raised the interrupt that is live at the sleep
C25_Witness ==
    /\ AtOp("loop", "tick")
    /\ age >= 1
    /\ _currentAction = "F"
    /\ raised = 2
    /\ lastDistance = 20
    /\ ~_pauseDistanceSensor
    /\ is_pressed["left"]
    /\ _interruptId = "left-antenna"
    /\ ~_interruptBeingHandled

\* The handlers do_default escapes by, and the gait each of them starts
EscapeHandlers == {do_backLeft, do_backRight, do_leftNoCheck, do_rightNoCheck, do_backward}

EscapeGait(code) ==
    CASE code = "l" -> "_backLeft" [] code = "r" -> "_backRight" [] code = "L" -> "_left"
      [] code = "R" -> "_right" [] code = "B" -> "_backward" [] OTHER -> "None"

\* The calls thread p has got to make by this step, before those it had
NewCalls(p) == SubSeq(procs'[p].todo, 1, Len(procs'[p].todo) + 1 - Len(procs[p].todo))

\* The escape gait of the current action runs and the timer for 'F' is armed
EscapeUnderWay ==
    /\ _currentAction \in {"l", "r", "L", "R", "B"}
    /\ _actionThread # 0
    /\ actionThreads[_actionThread].state = "alive"
    /\ actionThreads[_actionThread].func = EscapeGait(_currentAction)
    /\ _timerAction = "F"

\* C26: an iteration that finds a short-distance interrupt to handle runs
\* do_default. When the scan of do_default reports no movement and a minimum
\* distance below SHORTDISTANCE, and then only, do_default makes 'escape' the
\* interrupt and goes on with one of the five escape handlers and
\* _setTimer(30, 'F'); when that call is made the gait of the handler runs as
\* the current action and the timer is armed for 'F' with 30 ticks, and so
\* it is, the timer armed for 'F' still, whenever the behaviour loop is at
\* its sleep or begins an iteration during the escape
C26_ShortDistanceEscape ==
    /\ [][(IterationBegins /\ ~TimerDue /\ _interruptId = "short-distance"
              /\ ~_interruptBeingHandled /\ ~_stopped)
             => /\ _interruptBeingHandled'
                /\ procs'["loop"].todo = do_default \o <<Op("tick", "", 0)>>]_vars
    /\ [][\A p \in Procs :
             (AtOp(p, "do_default") /\ procs'[p] # procs[p])
                 => IF _interruptId' = "escape"
                    THEN /\ _interruptValue' = 0
                         /\ \E h \in EscapeHandlers :
                               NewCalls(p) = h \o _setTimer(EscapeDelay, "F")
                    ELSE /\ UNCHANGED <<_interruptId, _interruptValue>>
                         /\ NewCalls(p) \in {do_forward,
                                             do_trackMovement \o SetTimerRandom("T", "F")}]_vars
    /\ [][\A p \in Procs :
             (AtOp(p, "_setTimer") /\ _interruptId = "escape" /\ procs'[p] # procs[p])
                 => /\ EscapeUnderWay'
                    /\ _interruptId' = "escape"
                    /\ _timerDelay' = EscapeDelay
                    /\ _timerAgeStart' = age]_vars
    /\ []((_interruptId = "escape" /\ (AtOp("loop", "tick") \/ AtOp("loop", "iteration")))
             => EscapeUnderWay /\ _timerDelay \in {0, EscapeDelay})

\* The obstacle at 20 cm has interrupted the walk, do_default has found
\* obstacles on both sides and has returned with _backLeft running
C26_Witness ==
    /\ AtOp("loop", "tick")
    /\ lastDistance = 20
    /\ _interruptValue = 0
    /\ _interruptId = "escape"
    /\ _interruptBeingHandled
    /\ _currentAction = "l"
    /\ EscapeUnderWay
    /\ _timerDelay = EscapeDelay
    /\ _timerAgeStart = age

(***************************************************************************)
(* Claims about the gaits and the poses                                    *)
(***************************************************************************)

\* The pair and the side of a leg id
PairOf(leg) == CHOOSE k \in 0..2 : leg \in {L(k), R(k)}
SideOf(leg) == IF leg \in {L(0), L(1), L(2)} THEN "L" ELSE "R"

\* A movement thread of the leg is in reachForward
MidReach(leg) == \E k \in LegThreadIds : legThreads[leg][k].alive
                                          /\ legThreads[leg][k].func = "reachForward"

\* Action thread a has the reachForward of a leg of the pair still to command
\* in the cycle it is in
ReachToCome(a, pair) ==
    \E i \in 1..Len(actionThreads[a].todo) :
        /\ actionThreads[a].todo[i].op = "run"
        /\ actionThreads[a].todo[i].func = "reachForward"
        /\ PairOf(actionThreads[a].todo[i].leg) = pair

\* Action thread a walks forward
Forward(a) == actionThreads[a].state = "alive" /\ actionThreads[a].func = "_forward"

\* The forward movement _forward has chosen, while thread a is in its loop
Movement(a) ==
    LET todo == actionThreads[a].todo
    IN  IF todo # <<>> /\ todo[Len(todo)].op = "loop" THEN todo[Len(todo)].func ELSE "None"

\* C27: in the forward walk, whichever forward movement is selected, no leg of
\* one pair is in its reach while a leg of another pair is in its reach
C27_ReachPairByPair ==
    \A a \in ActionIds :
        Forward(a)
            => \A l1 \in LegIds, l2 \in LegIds :
                  (MidReach(l1) /\ MidReach(l2)) => PairOf(l1) = PairOf(l2)

\* C27 as amended: _shunt and _swimButterfly reach pair by pair from front to
\* back: legs in their reach at the same time are of one pair, and while a leg
\* is in its reach no leg of a pair before it is in its reach or has its reach
\* to come in that cycle. _swimBreast and _swimFrontCrawl reach side by side:
\* legs in their reach at the same time are of one side, of any pairs. Once
\* the walk has left its loop no leg is in a reach
C27_ReachPairByPairOrSideBySide ==
    \A a \in ActionIds :
        Forward(a)
            => /\ Movement(a) \in {"_shunt", "_swimButterfly"}
                     => \A l1 \in LegIds :
                           MidReach(l1)
                               => /\ \A l2 \in LegIds : MidReach(l2) => PairOf(l1) = PairOf(l2)
                                  /\ \A k \in 0..(PairOf(l1) - 1) : ~ReachToCome(a, k)
               /\ Movement(a) \in {"_swimBreast", "_swimFrontCrawl"}
                     => \A l1 \in LegIds, l2 \in LegIds :
                           (MidReach(l1) /\ MidReach(l2)) => SideOf(l1) = SideOf(l2)
               /\ Movement(a) \in FORWARDMOVEMENTS \cup {"None"}
               /\ Movement(a) = "None" => \A l1 \in LegIds : ~MidReach(l1)

\* _swimBreast on two pairs of legs: the two left legs are in their reach
\* together
C27_Witness ==
    \E a \in ActionIds :
        /\ Forward(a)
        /\ numPairs = 2
        /\ Movement(a) = "_swimBreast"
        /\ MidReach("L0")
        /\ MidReach("L1")
        /\ ~MidReach("R0")

\* Action thread a, alive, runs one of the poses that do not repeat
Posing(a) == actionThreads[a].state = "alive" /\ actionThreads[a].func \in StaticPoses

\* Action thread a, alive, runs _point or _eat
PointingOrEating(a) ==
    actionThreads[a].state = "alive" /\ actionThreads[a].func \in {"_point", "_eat"}

\* C28: the action thread of every pose, _point and _eat among them, ends by
\* itself while nothing sets the stop flag
C28_PosesEnd ==
    \A a \in ActionIds :
        [](actionThreads[a].state = "alive" => <>(actionThreads[a].state = "dead"))

\* C28 as amended: _alert, _sit, _unwind, _kneesup, _kneesdown, _hipsforward
\* and _hipsbackward command each leg once at most, all commands before the
\* one wait for all the legs commanded, test no stop flag and do not loop;
\* their thread ends by itself with the stop flag down and every movement
\* thread ended. _point and _eat are loops: while nothing sets the stop flag
\* their thread does not end
C28_StaticPosesEnd ==
    /\ [](\A a \in ActionIds :
            Posing(a)
                => /\ ~_stopped
                   /\ \A i \in 1..Len(actionThreads[a].todo) :
                         LET c == actionThreads[a].todo[i]
                         IN  /\ c.op \in {"run", "join"}
                             /\ c.op = "run"
                                   => /\ \E j \in (i + 1)..Len(actionThreads[a].todo) :
                                            /\ actionThreads[a].todo[j].op = "join"
                                            /\ actionThreads[a].todo[j].leg = c.leg
                                      /\ \A j \in 1..(i - 1) :
                                            /\ actionThreads[a].todo[j].op = "run"
                                            /\ actionThreads[a].todo[j].leg # c.leg)
    /\ [][\A a \in ActionIds :
            (Posing(a) /\ actionThreads'[a].state = "dead")
                => \A leg \in LegIds : AliveLegThreads(leg) = {}]_vars
    /\ \A a \in ActionIds : [](Posing(a) => <>(actionThreads[a].state = "dead"))
    /\ [][\A a \in ActionIds : PointingOrEating(a) => PointingOrEating(a)']_vars

\* _point is in its second cycle at least: the left front leg has been
\* commanded again, and the stop flag is down
C28_Witness ==
    \E a \in ActionIds :
        /\ PointingOrEating(a)
        /\ actionThreads[a].func = "_point"
        /\ ~_stopped
        /\ _threads["L0"] = 2
        /\ _threads["R0"] = 1

\* Action thread a, alive, runs _turn
Turning(a) == actionThreads[a].state = "alive" /\ actionThreads[a].func = "_turn"

\* The calls action thread a has left are the last ones of _stopMovements
InStopMovements(a) ==
    \E n \in 0..numLegs :
        actionThreads[a].todo = SubSeq(_stopMovements, numLegs - n + 1, numLegs)

\* C29: the thread of _turn ends, whether the stop flag is set or not. It
\* counts its cycles, of which there are 7 at most: after the 7th it goes on
\* to _stopMovements, and so it does after the cycle whose test finds the stop
\* flag set. It ends by the last call of _stopMovements only, with every
\* movement thread ended and every slot of _threads empty
C29_TurnEnds ==
    /\ \A a \in ActionIds : [](Turning(a) => <>(actionThreads[a].state = "dead"))
    /\ [](\A a \in ActionIds :
            Turning(a)
                => \/ InStopMovements(a)
                   \/ /\ actionThreads[a].todo[Len(actionThreads[a].todo)].op = "loop"
                      /\ actionThreads[a].todo[Len(actionThreads[a].todo)].n \in 1..TurnCycles)
    /\ [][\A a \in ActionIds :
            (Turning(a) /\ At(a, "loop", "get") /\ actionThreads'[a] # actionThreads[a])
                => IF NextCall(a).n = TurnCycles
                   THEN actionThreads'[a].todo = _stopMovements
                   ELSE actionThreads'[a].todo = _turn_cycle(NextCall(a).n)]_vars
    /\ [][\A a \in ActionIds :
            (Turning(a) /\ At(a, "check", "get") /\ _stopped
                 /\ actionThreads'[a] # actionThreads[a])
                => actionThreads'[a].todo = _stopMovements]_vars
    /\ [][\A a \in ActionIds :
            (Turning(a) /\ actionThreads'[a].state = "dead")
                => /\ actionThreads[a].todo = <<>>
                   /\ NoLegThreads]_vars
    /\ [][\A a \in ActionIds :
            (Turning(a) /\ actionThreads[a].todo # <<>> /\ actionThreads'[a].todo = <<>>)
                => At(a, "stop", "join") /\ actionThreads'[a].state = "alive"]_vars

\* _turn on two pairs of legs has done its 7 cycles with the stop flag down
\* and has _stopMovements to call
C29_Witness ==
    \E a \in ActionIds :
        /\ Turning(a)
        /\ numPairs = 2
        /\ ~_stopped
        /\ CallsMade = 1
        /\ callers["main"].pc = "idle"
        /\ actionThreads[a].todo = _stopMovements

\* Action thread a, alive, runs _backLeft or _backRight
Backing(a) ==
    /\ actionThreads[a].state = "alive"
    /\ actionThreads[a].func \in {"_backLeft", "_backRight"}

BackLoop(func) == IF func = "_backLeft" THEN _backLeft_loop ELSE _backRight_loop
BackPosition(func) == IF func = "_backLeft" THEN _backLeft_position ELSE _backRight_position

\* The side whose legs are put into position, and the side that the loop moves
PositionedSide(func) == IF func = "_backLeft" THEN "L" ELSE "R"
LoopSide(func) == IF func = "_backLeft" THEN "R" ELSE "L"

SideSet(side) == {SideLegs(side)[i] : i \in 1..numPairs}

\* Thread a is before the loop of its function, or inside it
InPosition(a) ==
    Backing(a) /\ Len(actionThreads[a].todo) > Len(BackLoop(actionThreads[a].func))

InBackLoop(a) ==
    /\ Backing(a)
    /\ actionThreads[a].todo # <<>>
    /\ actionThreads[a].todo[Len(actionThreads[a].todo)].op = "loop"
    /\ Len(actionThreads[a].todo) <= Len(BackLoop(actionThreads[a].func))

\* The calls thread a has left are the last k calls of the list calls
LastCallsOf(a, calls) ==
    \E k \in 0..Len(calls) :
        actionThreads[a].todo = SubSeq(calls, Len(calls) - k + 1, Len(calls))

\* C30: _backLeft starts with one command to each left leg, waits for the left
\* legs and enters its loop, to which it never comes back from; inside the
\* loop it commands reachBackward and pushForward to right legs only and waits
\* for right legs only, and no step of it in the loop changes the slot of a
\* left leg in _threads. _backRight does the same with the sides swapped
C30_BackOneSide ==
    /\ [][\A a \in ActionIds :
            (~Backing(a) /\ Backing(a)')
                => LET func == actionThreads'[a].func
                       pos == BackPosition(func)
                   IN  /\ actionThreads'[a].todo = pos \o BackLoop(func)
                       /\ \A i \in 1..Len(pos) :
                              /\ pos[i].op \in {"run", "join"}
                              /\ pos[i].leg \in SideSet(PositionedSide(func))
                       /\ \A leg \in SideSet(PositionedSide(func)) :
                              Cardinality({i \in 1..Len(pos) :
                                  pos[i].op = "run" /\ pos[i].leg = leg}) = 1]_vars
    /\ [](\A a \in ActionIds :
            InPosition(a)
                => LastCallsOf(a, BackPosition(actionThreads[a].func)
                                  \o BackLoop(actionThreads[a].func)))
    /\ [][\A a \in ActionIds : InBackLoop(a) => ~InPosition(a)']_vars
    /\ [](\A a \in ActionIds :
            InBackLoop(a)
                => /\ LastCallsOf(a, BackLoop(actionThreads[a].func))
                   /\ \A i \in 1..Len(actionThreads[a].todo) :
                          LET c == actionThreads[a].todo[i]
                          IN  /\ c.op \in {"run", "join"}
                                  => c.leg \in SideSet(LoopSide(actionThreads[a].func))
                              /\ c.op = "run" => c.func \in {"reachBackward", "pushForward"})
    /\ [][\A a \in ActionIds :
            (InBackLoop(a) /\ actionThreads'[a] # actionThreads[a])
                => \A leg \in SideSet(PositionedSide(actionThreads[a].func)) :
                       /\ _threads'[leg] = _threads[leg]
                       /\ legThreads'[leg] = legThreads[leg]]_vars

\* _backLeft on two pairs of legs is in its loop and stores the thread of the
\* push of R1, while the slots of the left legs hold the threads that put
\* them into position
C30_Witness ==
    \E a \in ActionIds :
        /\ InBackLoop(a)
        /\ actionThreads[a].func = "_backLeft"
        /\ numPairs = 2
        /\ At(a, "run", "store")
        /\ NextCall(a).leg = "R1"
        /\ NextCall(a).func = "pushForward"
        /\ _threads["L0"] # 0
        /\ _threads["L1"] # 0
        /\ _threads["R0"] # 0
(***************************************************************************)
(* Claims about the angles that reach the servos                           *)
(***************************************************************************)

\* The mid angles and the limits of the right hip and knee are the mirror
\* images of those of the left ones about a common mid angle
MirrorCalibration ==
    \A joint \in {"hip", "knee"} :
        /\ legs["right"][joint].midAngle = legs["left"][joint].midAngle
        /\ legs["right"][joint].lowAngle
               = 2 * legs["left"][joint].midAngle - legs["left"][joint].highAngle
        /\ legs["right"][joint].highAngle
               = 2 * legs["left"][joint].midAngle - legs["left"][joint].lowAngle

\* The last call on each of the two legs was the same compound movement
SameCompoundOp ==
    /\ moved["left"].op \in CompoundOps
    /\ moved["right"].op = moved["left"].op

\* The angles a and b, fractions, are mirror images of each other about mid
MirrorAbout(mid, a, b) == a[1] * b[2] + b[1] * a[2] = 2 * mid * a[2] * b[2]

\* C31: a left and a right leg with mirror-symmetric calibration that make the
\* same compound movement (reachForward, reachBackward, reachHalfBackward,
\* unwind, sit) are given, at every step and for the knee and the hip, angles
\* that are mirror images of each other about the mid angle
C31_MirroredCommands ==
    (SameCompoundOp /\ MirrorCalibration)
        => \A k \in 1..Len(moved["left"].commands) :
               \A joint \in DOMAIN moved["left"].commands[k] :
                   MirrorAbout(legs["left"][joint].midAngle,
                               moved["left"].commands[k][joint],
                               moved["right"].commands[k][joint])

\* A moveTo with the duration 0 has returned
MovedInNoTime == jpc = "idle" /\ lastCall = "moveTo" /\ mv.secs = 0

\* C32: a moveTo with the duration 0 gives the servo one angle, the limited
\* target, and no eased angle before it, whatever the angle it starts from and
\* the target
C32_OneStepInNoTime ==
    /\ MovedInNoTime
           => sentCount = 1 /\ servoAngle = FracOfInt(mv.newAngle) /\ _angle = mv.newAngle
    /\ (jpc = "moveTo" /\ mv.secs = 0) => sentCount = 0

\* The leg commands (_runOnThread) among calls, in their order
IsRun(c) == c.op = "run"
RunsOf(calls) == SelectSeq(calls, IsRun)

\* The leg of the same pair on the other side
OtherLeg(leg) ==
    LET i == CHOOSE k \in 1..Len(LegOrder) : LegOrder[k] = leg
    IN  IF i % 2 = 1 THEN LegOrder[i + 1] ELSE LegOrder[i - 1]

IsLeft(leg) == \E pair \in 0..(numPairs - 1) : leg = L(pair)

\* calls with the ids of the left and the right leg of each pair exchanged
SwapLegs(calls) ==
    [i \in 1..Len(calls) |->
        IF calls[i].leg = "" THEN calls[i] ELSE [calls[i] EXCEPT !.leg = OtherLeg(@)]]

\* The function of a leg that moves it the other way
OtherWay(func) ==
    CASE func = "reachForward" -> "reachBackward"
      [] func = "reachBackward" -> "reachForward"
      [] func = "pushForward" -> "pushBackward"
      [] func = "pushBackward" -> "pushForward"
      [] func = "_left" -> "_right"
      [] func = "_right" -> "_left"
      [] OTHER -> func

\* calls with forward and backward exchanged (and the gait of the loop call)
SwapWays(calls) == [i \in 1..Len(calls) |-> [calls[i] EXCEPT !.func = OtherWay(@)]]

\* What calls tells the leg to do, in its order
FuncsTo(calls, leg) ==
    LET ToLeg(c) == c.op = "run" /\ c.leg = leg
        cs == SelectSeq(calls, ToLeg)
    IN  [i \in 1..Len(cs) |-> cs[i].func]

\* Action thread a is at the top of a cycle of the gait func
AtTopOf(a, func, cycle) ==
    /\ actionThreads[a].state = "alive"
    /\ actionThreads[a].func = func
    /\ Len(actionThreads[a].todo) = Len(cycle)

\* The cycle of _left: a reach of every leg, the left ones backward and the
\* right ones forward, then a push of every leg, the left ones forward and the
\* right ones backward
LeftReachesThenPushes(cycle) ==
    LET runs == RunsOf(cycle)
    IN  /\ Len(runs) = 2 * numLegs
        /\ \A i \in 1..numLegs :
               /\ runs[i].leg = LegOrder[i]
               /\ runs[i].func = IF IsLeft(LegOrder[i]) THEN "reachBackward" ELSE "reachForward"
               /\ runs[numLegs + i].leg = LegOrder[i]
               /\ runs[numLegs + i].func
                      = IF IsLeft(LegOrder[i]) THEN "pushForward" ELSE "pushBackward"

\* C33: a cycle of _left reaches every left leg backward and every right leg
\* forward and then pushes every left leg forward and every right leg
\* backward, and the leg commands of a cycle of _right are those of _left with
\* the ids of the left and the right legs exchanged, in the same order
C33_RightIsLeftWithLegsSwapped ==
    \A a \in ActionIds :
        /\ AtTopOf(a, "_left", _left) => LeftReachesThenPushes(actionThreads[a].todo)
        /\ AtTopOf(a, "_right", _right)
               => RunsOf(actionThreads[a].todo) = SwapLegs(RunsOf(_left))

\* C33 as amended: every cycle of _left and of _right is the list of calls of
\* the gait; _left reaches and pushes as said; the calls of _right are those of
\* _left, for the same legs in the same order (the left leg of a pair before
\* the right one), with forward and backward exchanged, so that each leg is
\* told in _right what the other leg of its pair is told in _left
C33_RightIsLeftOtherWay ==
    \A a \in ActionIds :
        /\ AtTopOf(a, "_left", _left)
               => /\ actionThreads[a].todo = _left
                  /\ LeftReachesThenPushes(actionThreads[a].todo)
        /\ AtTopOf(a, "_right", _right)
               => /\ actionThreads[a].todo = _right
                  /\ actionThreads[a].todo = SwapWays(_left)
                  /\ \A leg \in LegIds :
                         FuncsTo(actionThreads[a].todo, leg) = FuncsTo(_left, OtherLeg(leg))

\* _right on three pairs of legs is at the top of its second cycle
C33_Witness ==
    \E a \in ActionIds :
        /\ AtTopOf(a, "_right", _right)
        /\ numPairs = 3
        /\ \E leg \in LegIds : _threads[leg] # 0
        /\ FuncsTo(actionThreads[a].todo, "R2") = <<"reachBackward", "pushForward">>

\* The interrupts that interrupt() stores for _handleInterrupt
Dispatchable == {"short-distance", "long-distance", "left-antenna", "right-antenna"}

\* An interrupt is in the slot and _handleInterrupt has not taken it up
Undispatched == _interruptId \in Dispatchable /\ ~_interruptBeingHandled

\* C34: an interrupt that interrupt() has stored stays in the slot until
\* _handleInterrupt takes it up: neither _clearInterrupt nor the "escape" of
\* do_default removes it before
C34_AcceptedInterruptKept ==
    [][Undispatched => _interruptId' = _interruptId]_vars

\* The behaviour loop is between two iterations
TickBoundary == AtOp("loop", "tick") \/ AtOp("loop", "iteration")

\* C35: between two iterations of the behaviour loop, when the current action
\* is 'F', no interrupt is in the slot and the distance sensor thread is not
\* on its way to raise one, the distance sensor is not paused
C35_MonitorArmedWhenForward ==
    (TickBoundary /\ _currentAction = "F" /\ _interruptId = "None"
         /\ sensorThreads["distance"].id = "None")
        => ~_pauseDistanceSensor

\* Caller c is inside stopCurrentAction (called by itself or by runAction)
InStopCurrentAction(c) == callers[c].pc \in {"join", "joining", "clear"}

C37_TimerArmedUnlessForward ==
    (TickBoundary /\ _currentAction \notin {"F", "W"}) => _timerAction # "None"

\* The loop ticks during the jump that the timer of a sit has started: the
\* timer of do_jump is armed for 'F'
C37_Witness ==
    /\ AtOp("loop", "tick")
    /\ _currentAction = "J"
    /\ _timerAction = "F"
    /\ _timerDelay = JumpDelay
    /\ age > _timerAgeStart

\* An action thread that runs the forward gait is alive
ForwardGaitAlive ==
    \E a \in ActionIds :
        actionThreads[a].state = "alive" /\ actionThreads[a].func = "_forward"

\* C38: between two iterations of the behaviour loop, a current action 'F'
\* has an action thread alive that runs the forward gait
C38_ForwardMeansWalking ==
    (TickBoundary /\ _currentAction = "F") => ForwardGaitAlive

\* C39: between two iterations of the behaviour loop, a current action 'F'
\* has no timer armed
C39_NoTimerWhenForward ==
    (TickBoundary /\ _currentAction = "F") => _timerAction = "None"

\* The behaviour loop is at the top of "while self._runningRandom" and goes on
LoopRuns == AtOp("loop", "iteration") /\ _runningRandom

\* The behaviour loop is at sleep(TICKPERIOD), after which age is incremented
LoopSleeps == AtOp("loop", "tick")

====
